---- MODULE Spec2Model ----
(***************************************************************************)
(* Chart-Generator: the config recovery loop of ApiClient, the chat turns  *)
(* of ChartGeneratorApp, ChartGenerator and the tabular DataProcessor.     *)
(*                                                                         *)
(* Texts are sequences of one-character strings; indices of the string     *)
(* helpers are 0-based as in JavaScript.  JavaScript values are records    *)
(* tagged by the field t.                                                  *)
(***************************************************************************)
EXTENDS Integers, Sequences, FiniteSets, TLC

(***************************************************************************)
(* JavaScript values                                                       *)
(***************************************************************************)
JNull == [t |-> "null"]
JUndef == [t |-> "undefined"]
JNum(n) == [t |-> "num", n |-> n]
JStr(s) == [t |-> "str", s |-> s]
JBool(b) == [t |-> "bool", b |-> b]
JDate(s) == [t |-> "date", s |-> s]
JFunc == [t |-> "function"]
JArr(items) == [t |-> "arr", items |-> items]
\* keys is the list Object.keys() returns, vals the values in the same order
JObj(keys, vals) == [t |-> "obj", keys |-> keys, vals |-> vals]

\* typeof v === 'object' (null, arrays, dates and plain objects)
TypeofObject(v) == v.t \in {"null", "arr", "obj", "date"}

\* !v
Falsy(v) ==
    \/ v.t \in {"null", "undefined"}
    \/ v.t = "num" /\ v.n = 0
    \/ v.t = "str" /\ v.s = <<>>
    \/ v.t = "bool" /\ ~v.b

(***************************************************************************)
(* String helpers (String.prototype)                                       *)
(***************************************************************************)
Digits == <<"0", "1", "2", "3", "4", "5", "6", "7", "8", "9">>

IsDigit(c) == \E d \in 1..10 : Digits[d] = c

DigitVal(c) == (CHOOSE d \in 1..10 : Digits[d] = c) - 1

\* white space of String.prototype.trim and of the regular expression \s
IsWs(c) == c \in {" ", "\n", "\t", "\r"}

\* control characters U+0000..U+001F that occur in the texts of the model
IsControl(c) == c \in {"\n", "\t", "\r"}

Trim(s) ==
    IF \A i \in 1..Len(s) : IsWs(s[i]) THEN <<>>
    ELSE LET first == CHOOSE i \in 1..Len(s) :
                         ~IsWs(s[i]) /\ \A j \in 1..(i - 1) : IsWs(s[j])
             last == CHOOSE i \in 1..Len(s) :
                         ~IsWs(s[i]) /\ \A j \in (i + 1)..Len(s) : IsWs(s[j])
         IN SubSeq(s, first, last)

\* pat occurs in s at the 0-based position i
MatchAt(s, pat, i) ==
    /\ i >= 0
    /\ i + Len(pat) <= Len(s)
    /\ SubSeq(s, i + 1, i + Len(pat)) = pat

StartsWith(s, pat) == MatchAt(s, pat, 0)

EndsWith(s, pat) == MatchAt(s, pat, Len(s) - Len(pat))

Includes(s, pat) == \E i \in 0..Len(s) : MatchAt(s, pat, i)

\* s.indexOf(pat, from): -1 when there is no occurrence
IndexOfFrom(s, pat, from) ==
    IF \E i \in from..Len(s) : MatchAt(s, pat, i)
    THEN CHOOSE i \in from..Len(s) :
             MatchAt(s, pat, i) /\ \A j \in from..(i - 1) : ~MatchAt(s, pat, j)
    ELSE -1

IndexOf(s, pat) == IndexOfFrom(s, pat, 0)

LastIndexOf(s, pat) ==
    IF \E i \in 0..Len(s) : MatchAt(s, pat, i)
    THEN CHOOSE i \in 0..Len(s) :
             MatchAt(s, pat, i) /\ \A j \in (i + 1)..Len(s) : ~MatchAt(s, pat, j)
    ELSE -1

Clamp(n, lo, hi) == IF n < lo THEN lo ELSE IF n > hi THEN hi ELSE n

\* s.substring(a, b): both ends clamped to 0..length, swapped when a > b
Substring(s, a, b) ==
    LET ca == Clamp(a, 0, Len(s))
        cb == Clamp(b, 0, Len(s))
        lo == IF ca <= cb THEN ca ELSE cb
        hi == IF ca <= cb THEN cb ELSE ca
    IN SubSeq(s, lo + 1, hi)

\* the first 0-based position >= i of s that holds no white space
RECURSIVE SkipWs(_, _)
SkipWs(s, i) ==
    IF i < Len(s) /\ IsWs(s[i + 1]) THEN SkipWs(s, i + 1) ELSE i

LowerChar(c) ==
    CASE c = "T" -> "t" [] c = "R" -> "r" [] c = "U" -> "u" [] c = "E" -> "e"
      [] c = "F" -> "f" [] c = "A" -> "a" [] c = "L" -> "l" [] c = "S" -> "s"
      [] OTHER -> c

ToLowerCase(s) == [i \in 1..Len(s) |-> LowerChar(s[i])]

(***************************************************************************)
(* Objects: own string keys in the order Object.keys lists them (array     *)
(* indices first, ascending; then the other keys in insertion order).      *)
(***************************************************************************)
RECURSIVE NumVal(_)
NumVal(k) ==
    IF k = <<>> THEN 0
    ELSE 10 * NumVal(SubSeq(k, 1, Len(k) - 1)) + DigitVal(k[Len(k)])

\* k is a canonical array index ("0", "7", "12"; not "01", not ""); the keys
\* of the model have fewer than 10 digits, so all are below 2^32 - 1
IsArrayIndex(k) ==
    /\ Len(k) >= 1
    /\ Len(k) <= 9
    /\ \A i \in 1..Len(k) : IsDigit(k[i])
    /\ (k[1] = "0" => Len(k) = 1)

HasKey(o, k) == \E i \in 1..Len(o.keys) : o.keys[i] = k

KeyPos(o, k) == CHOOSE i \in 1..Len(o.keys) : o.keys[i] = k

ObjGet(o, k) == IF HasKey(o, k) THEN o.vals[KeyPos(o, k)] ELSE JUndef

InsertAt(seq, p, e) == SubSeq(seq, 1, p - 1) \o <<e>> \o SubSeq(seq, p, Len(seq))

\* o[k] = v
ObjSet(o, k, v) ==
    IF HasKey(o, k)
    THEN JObj(o.keys, [o.vals EXCEPT ![KeyPos(o, k)] = v])
    ELSE LET Before(i) == /\ IsArrayIndex(k)
                          /\ \/ ~IsArrayIndex(o.keys[i])
                             \/ NumVal(o.keys[i]) > NumVal(k)
             p == IF \E i \in 1..Len(o.keys) : Before(i)
                  THEN CHOOSE i \in 1..Len(o.keys) :
                           Before(i) /\ \A j \in 1..(i - 1) : ~Before(j)
                  ELSE Len(o.keys) + 1
         IN JObj(InsertAt(o.keys, p, k), InsertAt(o.vals, p, v))

EmptyObj == JObj(<<>>, <<>>)

(***************************************************************************)
(* JSON.parse, on texts without backslash escapes and without fractions    *)
(* or exponents in numbers.  A result is [ok, v, next]: ok = FALSE is the  *)
(* SyntaxError, next the 0-based position after the value.                 *)
(***************************************************************************)
JsonFail == [ok |-> FALSE, v |-> JNull, next |-> 0]

JsonOk(v, next) == [ok |-> TRUE, v |-> v, next |-> next]

\* the 0-based position after the run of digits that starts at i
RECURSIVE DigitsEnd(_, _)
DigitsEnd(s, i) ==
    IF i < Len(s) /\ IsDigit(s[i + 1]) THEN DigitsEnd(s, i + 1) ELSE i

\* a number whose first digit is at i
JsonNumber(s, i, sign) ==
    LET Number(e) ==
            IF e = i THEN JsonFail
            ELSE IF s[i + 1] = "0" /\ e > i + 1 THEN JsonFail
            ELSE JsonOk(JNum(sign * NumVal(SubSeq(s, i + 1, e))), e)
    IN Number(DigitsEnd(s, i))

\* a string whose opening quote is at i
JsonString(s, i) ==
    LET String(q) ==
            IF q = -1 THEN JsonFail
            ELSE IF \E j \in (i + 2)..q : IsControl(s[j]) THEN JsonFail
            ELSE JsonOk(JStr(SubSeq(s, i + 2, q)), q + 1)
    IN String(IndexOfFrom(s, <<"\"">>, i + 1))

RECURSIVE JsonValue(_, _)
RECURSIVE JsonMembers(_, _, _)
RECURSIVE JsonItems(_, _, _)

JsonValue(s, i0) ==
    LET Object(j) ==
            IF j < Len(s) /\ s[j + 1] = "}" THEN JsonOk(EmptyObj, j + 1)
            ELSE JsonMembers(s, j, EmptyObj)
        Array(j) ==
            IF j < Len(s) /\ s[j + 1] = "]" THEN JsonOk(JArr(<<>>), j + 1)
            ELSE JsonItems(s, j, <<>>)
        Value(i, c) ==
            CASE c = "{" -> Object(SkipWs(s, i + 1))
              [] c = "[" -> Array(SkipWs(s, i + 1))
              [] c = "\"" -> JsonString(s, i)
              [] c = "-" -> JsonNumber(s, i + 1, -1)
              [] IsDigit(c) -> JsonNumber(s, i, 1)
              [] c = "t" /\ MatchAt(s, <<"t", "r", "u", "e">>, i) ->
                   JsonOk(JBool(TRUE), i + 4)
              [] c = "f" /\ MatchAt(s, <<"f", "a", "l", "s", "e">>, i) ->
                   JsonOk(JBool(FALSE), i + 5)
              [] c = "n" /\ MatchAt(s, <<"n", "u", "l", "l">>, i) ->
                   JsonOk(JNull, i + 4)
              [] OTHER -> JsonFail
        At(i) == IF i >= Len(s) THEN JsonFail ELSE Value(i, s[i + 1])
    IN At(SkipWs(s, i0))

\* the members of an object from the key at i on; obj holds the earlier ones
JsonMembers(s, i, obj) ==
    LET After(o, e) ==
            IF e >= Len(s) THEN JsonFail
            ELSE IF s[e + 1] = "}" THEN JsonOk(o, e + 1)
            ELSE IF s[e + 1] = "," THEN JsonMembers(s, SkipWs(s, e + 1), o)
            ELSE JsonFail
        Member(k, r) ==
            IF ~r.ok THEN JsonFail
            ELSE After(ObjSet(obj, k.v.s, r.v), SkipWs(s, r.next))
        Colon(k, c) ==
            IF ~(c < Len(s) /\ s[c + 1] = ":") THEN JsonFail
            ELSE Member(k, JsonValue(s, c + 1))
        Key(k) == IF ~k.ok THEN JsonFail ELSE Colon(k, SkipWs(s, k.next))
    IN IF ~(i < Len(s) /\ s[i + 1] = "\"") THEN JsonFail
       ELSE Key(JsonString(s, i))

\* the elements of an array from the one at i on; items holds the earlier ones
JsonItems(s, i, items) ==
    LET After(r, e) ==
            IF e >= Len(s) THEN JsonFail
            ELSE IF s[e + 1] = "]" THEN JsonOk(JArr(Append(items, r.v)), e + 1)
            ELSE IF s[e + 1] = "," THEN JsonItems(s, e + 1, Append(items, r.v))
            ELSE JsonFail
        Item(r) == IF ~r.ok THEN JsonFail ELSE After(r, SkipWs(s, r.next))
    IN Item(JsonValue(s, i))

\* JSON.parse(s): ok = FALSE when it throws
JsonParse(s) ==
    LET Parsed(r) ==
            IF r.ok /\ SkipWs(s, r.next) = Len(s)
            THEN [ok |-> TRUE, v |-> r.v]
            ELSE [ok |-> FALSE, v |-> JNull]
    IN Parsed(JsonValue(s, 0))

(***************************************************************************)
(* Number, parseFloat and parseInt on the numeric texts of the model:      *)
(* decimal literals (sign, digits, fraction, exponent) and literals with   *)
(* the radix prefix 0x, 0o or 0b; no Infinity, no numeric separators.      *)
(* A non-integer value m / 10^k is JDec(m, k), m not divisible by 10.      *)
(***************************************************************************)
JDec(m, k) == [t |-> "dec", m |-> m, k |-> k]

JNaN == [t |-> "NaN"]

RECURSIVE Pow10(_)
Pow10(n) == IF n = 0 THEN 1 ELSE 10 * Pow10(n - 1)

\* the number m / 10^k
RECURSIVE Scaled(_, _)
Scaled(m, k) ==
    IF k = 0 THEN JNum(m)
    ELSE IF m % 10 = 0 THEN Scaled(m \div 10, k - 1)
    ELSE JDec(m, k)

\* the number sign * m * 10^(x - k)
DecimalValue(sign, m, k, x) ==
    IF x >= k THEN JNum(sign * m * Pow10(x - k)) ELSE Scaled(sign * m, k - x)

\* the exponent part of a decimal literal whose mantissa (digits m, k of them
\* after the point) ends at p; the literal has to end with the text
DecimalExponent(s, p, sign, m, k) ==
    LET End(xs, x0, x1) ==
            IF x1 > x0 /\ x1 = Len(s)
            THEN DecimalValue(sign, m, k, xs * NumVal(SubSeq(s, x0 + 1, x1)))
            ELSE JNaN
        Exp(xs, x0) == End(xs, x0, DigitsEnd(s, x0))
    IN IF p = Len(s) THEN DecimalValue(sign, m, k, 0)
       ELSE IF s[p + 1] \notin {"e", "E"} THEN JNaN
       ELSE IF p + 1 < Len(s) /\ s[p + 2] = "-" THEN Exp(-1, p + 2)
       ELSE IF p + 1 < Len(s) /\ s[p + 2] = "+" THEN Exp(1, p + 2)
       ELSE Exp(1, p + 1)

\* a decimal literal whose digits start at s0; its integer digits end at i1
DecimalMantissa(s, s0, sign, i1) ==
    LET Fraction(f1) ==
            IF i1 = s0 /\ f1 = i1 + 1 THEN JNaN
            ELSE DecimalExponent(s, f1, sign,
                                 NumVal(SubSeq(s, s0 + 1, i1) \o SubSeq(s, i1 + 2, f1)),
                                 f1 - i1 - 1)
    IN IF i1 < Len(s) /\ s[i1 + 1] = "." THEN Fraction(DigitsEnd(s, i1 + 1))
       ELSE IF i1 = s0 THEN JNaN
       ELSE DecimalExponent(s, i1, sign, NumVal(SubSeq(s, s0 + 1, i1)), 0)

\* StrDecimalLiteral: the whole text s is a signed decimal literal, or NaN
DecimalLiteral(s) ==
    LET Unsigned(s0, sign) == DecimalMantissa(s, s0, sign, DigitsEnd(s, s0))
    IN IF s = <<>> THEN JNaN
       ELSE IF s[1] = "-" THEN Unsigned(1, -1)
       ELSE IF s[1] = "+" THEN Unsigned(1, 1)
       ELSE Unsigned(0, 1)

HexDigits ==
    <<"0", "1", "2", "3", "4", "5", "6", "7", "8", "9", "a", "b", "c", "d", "e", "f">>

HexUpper == <<"A", "B", "C", "D", "E", "F">>

\* the value of the digit c in the radix, -1 when c is no digit of it
RadixDigit(c, radix) ==
    IF \E d \in 1..radix : HexDigits[d] = c
    THEN (CHOOSE d \in 1..radix : HexDigits[d] = c) - 1
    ELSE IF radix = 16 /\ \E d \in 1..6 : HexUpper[d] = c
    THEN (CHOOSE d \in 1..6 : HexUpper[d] = c) + 9
    ELSE -1

\* the 0-based position after the run of digits of the radix that starts at i
RECURSIVE RadixEnd(_, _, _)
RadixEnd(s, i, radix) ==
    IF i < Len(s) /\ RadixDigit(s[i + 1], radix) # -1
    THEN RadixEnd(s, i + 1, radix) ELSE i

RECURSIVE RadixVal(_, _)
RadixVal(k, radix) ==
    IF k = <<>> THEN 0
    ELSE radix * RadixVal(SubSeq(k, 1, Len(k) - 1), radix) + RadixDigit(k[Len(k)], radix)

\* the radix a prefix 0x, 0o, 0b (in either case) announces, 0 for none
PrefixRadix(s) ==
    IF Len(s) < 2 \/ s[1] # "0" THEN 0
    ELSE IF s[2] \in {"x", "X"} THEN 16
    ELSE IF s[2] \in {"o", "O"} THEN 8
    ELSE IF s[2] \in {"b", "B"} THEN 2
    ELSE 0

\* NonDecimalIntegerLiteral: prefix and at least one digit, up to the end
RadixLiteral(s, radix) ==
    IF Len(s) > 2 /\ RadixEnd(s, 2, radix) = Len(s)
    THEN JNum(RadixVal(SubSeq(s, 3, Len(s)), radix))
    ELSE JNaN

\* Number(s) of a trimmed, non-empty text
ToNumber(s) ==
    IF PrefixRadix(s) # 0 THEN RadixLiteral(s, PrefixRadix(s)) ELSE DecimalLiteral(s)

\* parseFloat(s) of a text for which Number(s) is a number: the value of the
\* longest prefix that is a decimal literal (the 0 of a radix prefix)
ParseFloat(s) == IF PrefixRadix(s) # 0 THEN JNum(0) ELSE DecimalLiteral(s)

\* parseInt(s) of a trimmed text: sign, then the digits of radix 16 after a
\* prefix 0x or of radix 10 without, up to the first other character
ParseInt(s) ==
    LET Digits16(s0, sign, e) ==
            IF e = s0 + 2 THEN JNaN
            ELSE JNum(sign * RadixVal(SubSeq(s, s0 + 3, e), 16))
        Digits10(s0, sign, e) ==
            IF e = s0 THEN JNaN ELSE JNum(sign * NumVal(SubSeq(s, s0 + 1, e)))
        Unsigned(s0, sign) ==
            IF PrefixRadix(SubSeq(s, s0 + 1, Len(s))) = 16
            THEN Digits16(s0, sign, RadixEnd(s, s0 + 2, 16))
            ELSE Digits10(s0, sign, DigitsEnd(s, s0))
    IN IF s = <<>> THEN JNaN
       ELSE IF s[1] = "-" THEN Unsigned(1, -1)
       ELSE IF s[1] = "+" THEN Unsigned(1, 1)
       ELSE Unsigned(0, 1)

(***************************************************************************)
(* DataProcessor                                                           *)
(***************************************************************************)
\* s.split(sep) for a separator of one character
RECURSIVE Split(_, _)
Split(s, sep) ==
    LET At(i) ==
            IF i = -1 THEN <<s>>
            ELSE <<SubSeq(s, 1, i)>> \o Split(SubSeq(s, i + 2, Len(s)), sep)
    IN At(IndexOf(s, <<sep>>))

\* (line.match(/c/g) || []).length
CountChar(line, c) == Cardinality({i \in 1..Len(line) : line[i] = c})

\* line => line.trim(), as a filter
NonBlank(line) == Trim(line) # <<>>

\* the decimal text of an array index
RECURSIVE IndexText(_)
IndexText(n) ==
    IF n < 10 THEN <<Digits[n + 1]>>
    ELSE Append(IndexText(n \div 10), Digits[(n % 10) + 1])

\* Object.keys(v) of an object or an array
ObjectKeys(v) ==
    IF v.t = "arr" THEN [i \in 1..Len(v.items) |-> IndexText(i - 1)]
    ELSE IF v.t = "obj" THEN v.keys
    ELSE <<>>

\* the results of parseData: an object with the listed properties, or the
\* exception it throws
ParseSuccess(data, columns, format) ==
    [success |-> TRUE, data |-> data, columns |-> columns, format |-> format]

ParseFailure(kind) == [success |-> FALSE, error |-> [kind |-> kind]]

ElementFailureZeroBased(kind, row) ==
    [success |-> FALSE, error |-> [kind |-> kind, row |-> row - 1]]

\* an error text that names the 1-based position of an element
ElementFailure(kind, row) ==
    [success |-> FALSE, error |-> [kind |-> kind, row |-> row]]

RowCountMismatchWithData(row, expected, actual) ==
    [success |-> FALSE, data |-> <<>>,
     error |-> [kind |-> "columnCount", row |-> row, expected |-> expected,
                actual |-> actual]]

\* the failure of a data line whose field count is not the column count
RowCountMismatch(row, expected, actual) ==
    [success |-> FALSE,
     error |-> [kind |-> "columnCount", row |-> row, expected |-> expected,
                actual |-> actual]]

ParseThrew == [threw |-> TRUE]

\* no call of parseData has returned
NotParsed == [pending |-> TRUE]

isJsonFormat(data) ==
    \/ StartsWith(data, <<"[">>) /\ EndsWith(data, <<"]">>)
    \/ StartsWith(data, <<"{">>) /\ EndsWith(data, <<"}">>)

\* the test of isCsvFormat and isTsvFormat on the lines of data.split('\n')
SameSeparatorCount(lines, sep) ==
    /\ Len(lines) >= 2
    /\ CountChar(lines[1], sep) > 0
    /\ CountChar(lines[1], sep) = CountChar(lines[2], sep)

isCsvFormat(data) == SameSeparatorCount(Split(data, "\n"), ",")

isTsvFormat(data) == SameSeparatorCount(Split(data, "\n"), "\t")

\* the loop of parseCsvLine from position i on
RECURSIVE parseCsvLineFrom(_, _, _, _, _)
parseCsvLineFrom(line, i, result, current, inQuotes) ==
    IF i >= Len(line) THEN Append(result, current)
    ELSE IF line[i + 1] = "\""
    THEN IF inQuotes /\ i + 1 < Len(line) /\ line[i + 2] = "\""
         THEN parseCsvLineFrom(line, i + 2, result, Append(current, "\""), inQuotes)
         ELSE parseCsvLineFrom(line, i + 1, result, current, ~inQuotes)
    ELSE IF line[i + 1] = "," /\ ~inQuotes
    THEN parseCsvLineFrom(line, i + 1, Append(result, current), <<>>, inQuotes)
    ELSE parseCsvLineFrom(line, i + 1, result, Append(current, line[i + 1]), inQuotes)

parseCsvLineOpenQuote(line) == parseCsvLineFrom(line, 0, <<>>, <<>>, TRUE)

parseCsvLine(line) == parseCsvLineFrom(line, 0, <<>>, <<>>, FALSE)

\* the five patterns of isDateString; d stands for \d
datePatterns ==
    << <<"d", "d", "d", "d", "-", "d", "d", "-", "d", "d">>,
       <<"d", "d", "d", "d", "/", "d", "d", "/", "d", "d">>,
       <<"d", "d", "/", "d", "d", "/", "d", "d", "d", "d">>,
       <<"d", "d", "-", "d", "d", "-", "d", "d", "d", "d">>,
       <<"d", "d", "d", "d", "-", "d", "d", "-", "d", "d", " ", "d", "d", ":",
         "d", "d", ":", "d", "d">> >>

\* pattern.test(value)
PatternTest(pattern, value) ==
    /\ Len(value) = Len(pattern)
    /\ \A i \in 1..Len(pattern) :
           IF pattern[i] = "d" THEN IsDigit(value[i]) ELSE value[i] = pattern[i]

isDateString(value) == \E p \in 1..Len(datePatterns) : PatternTest(datePatterns[p], value)

IsLeapYear(y) == (y % 4 = 0 /\ y % 100 # 0) \/ y % 400 = 0

DaysInMonth(y, m) ==
    IF m = 2 THEN (IF IsLeapYear(y) THEN 29 ELSE 28)
    ELSE IF m \in {4, 6, 9, 11} THEN 30
    ELSE 31

IsCalendarDate(y, m, d) == m \in 1..12 /\ d \in 1..DaysInMonth(y, m)

Field(value, from, to) == NumVal(SubSeq(value, from, to))

\* !isNaN(new Date(value).getTime()) for a text that matches a date pattern.
\* Date.parse is specified for the ISO form only: a calendar date in the
\* forms YYYY-MM-DD, YYYY/MM/DD and MM/DD/YYYY is an instant on every
\* engine, an ISO date with a month outside 1..12 or a day outside 1..31 on
\* none; every other text (a day beyond the end of its month, the forms
\* MM-DD-YYYY and YYYY-MM-DD HH:MM:SS) is left to the engine: legacyDate.
DateIsValid(value, legacyDate) ==
    LET Iso == PatternTest(datePatterns[1], value)
        YearFirst == Iso \/ PatternTest(datePatterns[2], value)
        MonthFirst == PatternTest(datePatterns[3], value)
    IN IF YearFirst /\ IsCalendarDate(Field(value, 1, 4), Field(value, 6, 7),
                                      Field(value, 9, 10))
       THEN TRUE
       ELSE IF MonthFirst /\ IsCalendarDate(Field(value, 7, 10), Field(value, 1, 2),
                                            Field(value, 4, 5))
       THEN TRUE
       ELSE IF Iso /\ ( \/ Field(value, 6, 7) \notin 1..12
                        \/ Field(value, 9, 10) \notin 1..31 )
       THEN FALSE
       ELSE legacyDate

\* parseValue after the test of the empty text and the numeric test failed
parseNonNumeric(value, lowerValue, legacyDate) ==
    IF lowerValue = <<"t", "r", "u", "e">> THEN JBool(TRUE)
    ELSE IF lowerValue = <<"f", "a", "l", "s", "e">> THEN JBool(FALSE)
    ELSE IF isDateString(value) /\ DateIsValid(value, legacyDate) THEN JDate(value)
    ELSE JStr(value)

\* Number.isInteger(num) ? parseInt(value) : num
parseNumeric(value, num) == IF num.t = "num" THEN ParseInt(value) ELSE num

\* parseValue(value)
parseValue(value, legacyDate) ==
    IF value = <<>> THEN JNull
    ELSE IF ToNumber(value) # JNaN /\ ParseFloat(value) # JNaN
    THEN parseNumeric(value, ParseFloat(value))
    ELSE parseNonNumeric(value, ToLowerCase(value), legacyDate)

\* typeof item !== 'object' || item === null
NotAnObject(item) == item.t \notin {"obj", "arr"}

KeysMismatchOrdered(itemKeys, columns) == itemKeys # columns

\* the test of the consistency loop of parseJsonData on the keys of an item
KeysMismatch(itemKeys, columns) ==
    \/ Len(itemKeys) # Len(columns)
    \/ ~(\A k \in 1..Len(itemKeys) : \E c \in 1..Len(columns) : columns[c] = itemKeys[k])

\* the consistency loop of parseJsonData from the index i on
RECURSIVE jsonItemsFrom(_, _, _)
jsonItemsFrom(parsed, columns, i) ==
    IF i >= Len(parsed.items) THEN ParseSuccess(parsed.items, columns, "json")
    ELSE IF NotAnObject(parsed.items[i + 1]) THEN ElementFailure("jsonRowFormat", i + 1)
    ELSE IF KeysMismatch(ObjectKeys(parsed.items[i + 1]), columns)
    THEN ElementFailure("jsonRowMismatch", i + 1)
    ELSE jsonItemsFrom(parsed, columns, i + 1)

\* parseJsonData after JSON.parse returned parsed
parseJsonValue(parsed) ==
    IF parsed.t # "arr" THEN ParseFailure("jsonNotArray")
    ELSE IF Len(parsed.items) = 0 THEN ParseFailure("jsonEmptyArray")
    ELSE IF NotAnObject(parsed.items[1]) THEN ParseFailure("jsonElementNotObject")
    ELSE jsonItemsFrom(parsed, ObjectKeys(parsed.items[1]), 1)

\* parseJsonData(jsonData); r is the outcome of JSON.parse(jsonData)
parseJsonResult(r) == IF r.ok THEN parseJsonValue(r.v) ELSE ParseFailure("jsonSyntax")

parseJsonData(jsonData) == parseJsonResult(JsonParse(jsonData))

\* the inner loop of parseCsvData and parseTsvData from the column j on:
\* row[columns[j]] = this.parseValue(values[j].trim())
RECURSIVE rowFrom(_, _, _, _, _)
rowFrom(columns, values, j, row, legacyDate) ==
    IF j >= Len(columns) THEN row
    ELSE rowFrom(columns, values, j + 1,
                 ObjSet(row, columns[j + 1], parseValue(Trim(values[j + 1]), legacyDate)),
                 legacyDate)

\* the loop over the data lines from the line i on; fields[i + 1] holds the
\* values of lines[i], data the rows of the earlier lines
RECURSIVE rowsFrom(_, _, _, _, _, _)
rowsFrom(columns, fields, i, data, format, legacyDate) ==
    IF i >= Len(fields) THEN ParseSuccess(data, columns, format)
    ELSE IF Len(fields[i + 1]) # Len(columns)
    THEN RowCountMismatch(i + 1, Len(columns), Len(fields[i + 1]))
    ELSE rowsFrom(columns, fields, i + 1,
                  Append(data, rowFrom(columns, fields[i + 1], 0, EmptyObj, legacyDate)),
                  format, legacyDate)

\* headers.map(header => header.trim())
TrimAll(headers) == [j \in 1..Len(headers) |-> Trim(headers[j])]

\* parseCsvData from the non-blank lines on
parseCsvLines(lines, legacyDate) ==
    IF Len(lines) < 2 THEN ParseFailure("csvTooFewLines")
    ELSE rowsFrom(TrimAll(parseCsvLine(lines[1])),
                  [i \in 1..Len(lines) |-> parseCsvLine(lines[i])],
                  1, <<>>, "csv", legacyDate)

parseCsvData(csvData, legacyDate) ==
    parseCsvLines(SelectSeq(Split(csvData, "\n"), NonBlank), legacyDate)

\* parseTsvData from the non-blank lines on
parseTsvLines(lines, legacyDate) ==
    IF Len(lines) < 2 THEN ParseFailure("tsvTooFewLines")
    ELSE rowsFrom(TrimAll(Split(lines[1], "\t")),
                  [i \in 1..Len(lines) |-> Split(lines[i], "\t")],
                  1, <<>>, "tsv", legacyDate)

parseTsvData(tsvData, legacyDate) ==
    parseTsvLines(SelectSeq(Split(tsvData, "\n"), NonBlank), legacyDate)

parseTrimmedTsvFirst(trimmedData, legacyDate) ==
    IF isJsonFormat(trimmedData) THEN parseJsonData(trimmedData)
    ELSE IF isTsvFormat(trimmedData) THEN parseTsvData(trimmedData, legacyDate)
    ELSE IF isCsvFormat(trimmedData) THEN parseCsvData(trimmedData, legacyDate)
    ELSE parseCsvData(trimmedData, legacyDate)

\* parseData from `const trimmedData = rawData.trim()` on
parseTrimmed(trimmedData, legacyDate) ==
    IF isJsonFormat(trimmedData) THEN parseJsonData(trimmedData)
    ELSE IF isCsvFormat(trimmedData) THEN parseCsvData(trimmedData, legacyDate)
    ELSE IF isTsvFormat(trimmedData) THEN parseTsvData(trimmedData, legacyDate)
    ELSE parseCsvData(trimmedData, legacyDate)

parseDataUntrimmedTest(rawData, legacyDate) ==
    IF Falsy(rawData) THEN ParseFailure("empty")
    ELSE IF rawData.t # "str" THEN ParseThrew
    ELSE parseTrimmed(Trim(rawData.s), legacyDate)

\* parseData(rawData): a value that is neither falsy nor a string has no
\* method trim, the call throws; legacyDate is the answer of the engine's
\* Date to the texts whose parsing ECMAScript leaves to the implementation
parseData(rawData, legacyDate) ==
    IF Falsy(rawData) THEN ParseFailure("empty")
    ELSE IF rawData.t # "str" THEN ParseThrew
    ELSE IF Trim(rawData.s) = <<>> THEN ParseFailure("empty")
    ELSE parseTrimmed(Trim(rawData.s), legacyDate)

(***************************************************************************)
(* ApiClient: callApi, the extraction step, parseEChartsConfig and one     *)
(* attempt of the config recovery loop                                     *)
(***************************************************************************)
maxRetries == 5

\* an error text: its kind and the retry count it names (NoCount: none)
NoCount == -1

Err(kind, retried) == [kind |-> kind, retried |-> retried]

\* what fetch and the endpoint can answer to one request
NetOutcomes(contents) ==
    {[kind |-> k, content |-> JNull] : k \in {"throw", "httpError", "noChoices"}}
        \cup {[kind |-> "ok", content |-> c] : c \in contents}

\* callApi(messages, options): hasKey is !!getConfig().apiKey, net the answer
callApi(hasKey, net) ==
    IF ~hasKey THEN [success |-> FALSE, error |-> Err("noApiKey", NoCount)]
    ELSE IF net.kind = "httpError"
         THEN [success |-> FALSE, error |-> Err("http", NoCount)]
    ELSE IF net.kind = "noChoices"
         THEN [success |-> FALSE, error |-> Err("badFormat", NoCount)]
    ELSE IF net.kind = "throw"
         THEN [success |-> FALSE, error |-> Err("callFailed", NoCount)]
    ELSE [success |-> TRUE, content |-> net.content]

\* the backquote character U+0060 (a string literal cannot hold it)
Backtick == "BACKQUOTE"

Fence == <<Backtick, Backtick, Backtick>>

JsonFence == <<Backtick, Backtick, Backtick, "j", "s", "o", "n">>

\* content.match of the fence pattern (open, white space, lazy group, white
\* space, closing fence): found = FALSE is null, group is the capture [1].
\* The match starts at the first occurrence of open; the lazy group ends at
\* the first position from which white space and then a fence follow.
FenceMatch(content, open) ==
    LET Closes(q) == MatchAt(content, Fence, SkipWs(content, q))
        Group(b) ==
            IF ~(\E q \in b..Len(content) : Closes(q))
            THEN [found |-> FALSE, group |-> <<>>]
            ELSE [found |-> TRUE,
                  group |-> SubSeq(content, b + 1,
                                   CHOOSE q \in b..Len(content) :
                                       Closes(q) /\ \A r \in b..(q - 1) : ~Closes(r))]
        From(i) ==
            IF i = -1 THEN [found |-> FALSE, group |-> <<>>]
            ELSE Group(SkipWs(content, i + Len(open)))
    IN From(IndexOf(content, open))

\* jsonContent after `if (match && match[1])`
FencedOr(content, m) == IF m.found /\ m.group # <<>> THEN Trim(m.group) ELSE content

\* the brace scan: from the first { to the last }
BraceSpan(content, jsonStart, jsonEnd) ==
    IF jsonStart # -1 /\ jsonEnd > 0
    THEN Substring(content, jsonStart, jsonEnd)
    ELSE content

\* the candidate text jsonContent of a trimmed response text
ExtractJsonContent(content) ==
    IF Includes(content, JsonFence)
    THEN FencedOr(content, FenceMatch(content, JsonFence))
    ELSE IF Includes(content, Fence)
    THEN FencedOr(content, FenceMatch(content, Fence))
    ELSE IF StartsWith(content, <<Backtick>>) /\ EndsWith(content, <<Backtick>>)
    THEN Trim(Substring(content, 1, Len(content) - 1))
    ELSE BraceSpan(content, IndexOf(content, <<"{">>),
                   LastIndexOf(content, <<"}">>) + 1)

\* what the Function constructor evaluation of configStr can do: throw, or
\* return a value
EvalValues ==
    { JObj(<< <<"f">> >>, <<JFunc>>), JArr(<<JNum(1)>>), JNum(1), JNull, JFunc }

EvalOutcomes ==
    {[threw |-> TRUE, v |-> JUndef]} \cup {[threw |-> FALSE, v |-> v] : v \in EvalValues}

ParseThrows == [ok |-> FALSE, v |-> JUndef, path |-> "none"]

\* the permissive path of parseEChartsConfig, after JSON.parse threw
parsePermissive(trimmed, ev) ==
    IF ~StartsWith(trimmed, <<"{">>) \/ ~EndsWith(trimmed, <<"}">>)
    THEN ParseThrows
    ELSE IF ev.threw THEN ParseThrows
    ELSE IF Falsy(ev.v) \/ ~TypeofObject(ev.v) THEN ParseThrows
    ELSE [ok |-> TRUE, v |-> ev.v, path |-> "permissive"]

\* parseEChartsConfig(configStr): ok = FALSE when it throws; ev is the outcome
\* of the Function evaluation, used only when that evaluation is reached
parseEChartsConfig(configStr, ev) ==
    LET Parse(strict) ==
            IF strict.ok THEN [ok |-> TRUE, v |-> strict.v, path |-> "strict"]
            ELSE parsePermissive(Trim(configStr), ev)
    IN IF configStr = <<>> THEN ParseThrows ELSE Parse(JsonParse(configStr))

\* a line terminator, which the . of a regular expression does not match
IsLineEnd(c) == c \in {"\n", "\r"}

\* the 0-based position of the first line terminator of s at or after i, or
\* the length of s
RECURSIVE LineEnd(_, _)
LineEnd(s, i) ==
    IF i < Len(s) /\ ~IsLineEnd(s[i + 1]) THEN LineEnd(s, i + 1) ELSE i

\* jsonString.replace(/\/\/.*$/gm, '') from the position i on
RECURSIVE StripLineComments(_, _)
StripLineComments(s, i) ==
    IF i >= Len(s) THEN <<>>
    ELSE IF MatchAt(s, <<"/", "/">>, i) THEN StripLineComments(s, LineEnd(s, i))
    ELSE <<s[i + 1]>> \o StripLineComments(s, i + 1)

\* cleaned.replace(/\/\*[\s\S]*?\*\//g, '') from the position i on
RECURSIVE StripBlockComments(_, _)
StripBlockComments(s, i) ==
    IF i >= Len(s) THEN <<>>
    ELSE IF MatchAt(s, <<"/", "*">>, i) /\ IndexOfFrom(s, <<"*", "/">>, i + 2) # -1
    THEN StripBlockComments(s, IndexOfFrom(s, <<"*", "/">>, i + 2) + 2)
    ELSE <<s[i + 1]>> \o StripBlockComments(s, i + 1)

\* the 0-based position after the run of control characters that starts at i
RECURSIVE ControlEnd(_, _)
ControlEnd(s, i) ==
    IF i < Len(s) /\ IsControl(s[i + 1]) THEN ControlEnd(s, i + 1) ELSE i

\* cleaned.replace(/[\u0000-\u001F]+/g, ' ') from the position i on
RECURSIVE ReplaceControls(_, _)
ReplaceControls(s, i) ==
    IF i >= Len(s) THEN <<>>
    ELSE IF IsControl(s[i + 1]) THEN <<" ">> \o ReplaceControls(s, ControlEnd(s, i))
    ELSE <<s[i + 1]>> \o ReplaceControls(s, i + 1)

\* the pattern /,\s*([}\]])/ matches at the position i
TrailingCommaAt(s, i) ==
    /\ s[i + 1] = ","
    /\ SkipWs(s, i + 1) < Len(s)
    /\ s[SkipWs(s, i + 1) + 1] \in {"}", "]"}

\* cleaned.replace(/,\s*([}\]])/g, '$1') from the position i on
RECURSIVE StripTrailingCommas(_, _)
StripTrailingCommas(s, i) ==
    IF i >= Len(s) THEN <<>>
    ELSE IF TrailingCommaAt(s, i) THEN StripTrailingCommas(s, SkipWs(s, i + 1))
    ELSE <<s[i + 1]>> \o StripTrailingCommas(s, i + 1)

\* cleanJsonContent(jsonString)
cleanJsonContent(jsonString) ==
    IF jsonString = <<>> THEN <<>>
    ELSE Trim(StripTrailingCommas(
                  ReplaceControls(
                      StripBlockComments(StripLineComments(jsonString, 0), 0), 0), 0))

MayRetryOnceMore(retryCount) == retryCount <= maxRetries

\* retryCount < maxRetries, the test before the backoff wait
MayRetry(retryCount) == retryCount < maxRetries

callFailedRetried(response, retryCount) ==
    [retry |-> MayRetry(retryCount), path |-> "none", result |-> response]

\* if (!response.success) return response
callFailed(response, retryCount) ==
    [retry |-> FALSE, path |-> "none", result |-> response]

(***************************************************************************)
(* Response texts of the model                                             *)
(***************************************************************************)
TextObjA == <<"{", "\"", "a", "\"", ":", "1", "}">>

TextFencedPie ==
    <<Backtick, Backtick, Backtick, "j", "s", "o", "n", "\n", "{", "\"", "s", "e", "r", "i",
      "e", "s", "\"", ":", "{", "\"", "t", "y", "p", "e", "\"", ":", "\"", "p",
      "i", "e", "\"", "}", "}", "\n", Backtick, Backtick, Backtick>>

TextArray == <<"[", "1", "]">>

TextNull == <<"n", "u", "l", "l">>

TextFuncObj == <<"{", "a", ":", "1", "}">>

TextProse == <<"o", "o", "p", "s">>

\* an object whose text holds a raw line feed inside a string
TextControl == <<"{", "\"", "a", "\"", ":", "\"", "x", "\n", "y", "\"", "}">>

\* message.content of a transport success: a text, or null
ResponseContents ==
    {JStr(x) : x \in {TextObjA, TextFencedPie, TextArray, TextNull, TextFuncObj,
                      TextProse, TextControl}} \cup {JNull}

ResponseTexts == {c.s : c \in {r \in ResponseContents : r.t = "str"}}

\* from `const content = response.content.trim()` to the return or the throw
\* of this.parseEChartsConfig(jsonContent)
ExtractAndParse(text, ev) ==
    parseEChartsConfig(ExtractJsonContent(Trim(text)), ev)

\* ExtractAndParse on the response texts of the model, computed once
ParsedResponses ==
    [text \in ResponseTexts, ev \in EvalOutcomes |-> ExtractAndParse(text, ev)]

\* the catch blocks of the agent functions: retry, or the failure that names
\* maxRetries retries
onParseError(response, retryCount, kind) ==
    IF MayRetry(retryCount)
    THEN [retry |-> TRUE, path |-> "none", result |-> response]
    ELSE [retry |-> FALSE, path |-> "none",
          result |-> [success |-> FALSE, error |-> Err(kind, maxRetries),
                      rawResponse |-> response.content]]

\* the end of the try block once parseEChartsConfig returned or threw
onParsed(response, retryCount, parsed) ==
    IF ~parsed.ok THEN onParseError(response, retryCount, "configUnparsable")
    ELSE [retry |-> FALSE, path |-> parsed.path,
          result |-> [success |-> TRUE, config |-> parsed.v,
                      rawResponse |-> response.content]]

\* One attempt of generateChartConfigAgent / generateChartConfigAgentWithRawData
\* from the answer of callApi on: either retry (wait 1 s, then call again with
\* retryCount + 1) or the value the function returns.  A content that is no
\* string makes response.content.trim() throw: the outer catch.
AgentAttempt(response, retryCount, ev) ==
    IF ~response.success
    THEN callFailed(response, retryCount)
    ELSE IF response.content.t # "str"
    THEN onParseError(response, retryCount, "responseError")
    ELSE onParsed(response, retryCount, ParsedResponses[response.content.s, ev])

\* the message of the system role of each agent
SystemMessage(agent) == [role |-> "system", content |-> agent]

\* buildChartConfigPrompt / buildChartConfigPromptWithRawData
BuildPrompt(agent, dataText, userMessage, currentConfig) ==
    [agent |-> agent, userMessage |-> userMessage, data |-> dataText,
     currentConfigInfo |-> IF Falsy(currentConfig) THEN JNull ELSE currentConfig]

\* the messages array of one attempt; chatHistory is the content the array
\* passed by the caller has when the attempt starts
BuildMessages(agent, dataText, userMessage, currentConfig, chatHistory) ==
    <<SystemMessage(agent)>> \o chatHistory
        \o <<[role |-> "user",
              prompt |-> BuildPrompt(agent, dataText, userMessage, currentConfig)]>>

(***************************************************************************)
(* One run of the config recovery loop: the chain of calls of              *)
(* generateChartConfigAgent(WithRawData) that starts with retryCount 0.    *)
(*   pc        "fetch" (callApi awaits fetch), "backoff" (the 1 s timer),  *)
(*             "returned"                                                  *)
(*   sent      the messages of the latest model call                       *)
(*   calls, parseFailures, netFailure   what happened in the run so far    *)
(***************************************************************************)
Agents == {"generateChartConfigAgent", "generateChartConfigAgentWithRawData"}

NoResult == [success |-> FALSE, error |-> Err("none", NoCount)]

NewRun(agent, dataText, userMessage, currentConfig) ==
    [pc |-> "new", agent |-> agent, dataText |-> dataText,
     userMessage |-> userMessage, currentConfig |-> currentConfig,
     retryCount |-> 0, calls |-> 0, parseFailures |-> 0, netFailure |-> FALSE,
     sent |-> <<>>, path |-> "none", result |-> NoResult]

\* the run r after one attempt ended with a (see AgentAttempt)
RunAfter(r, response, a) ==
    [r EXCEPT !.pc = IF a.retry THEN "backoff" ELSE "returned",
              !.parseFailures =
                  IF response.success /\ (a.retry \/ ~a.result.success)
                  THEN @ + 1 ELSE @,
              !.netFailure = @ \/ ~response.success,
              !.path = a.path,
              !.result = IF a.retry THEN @ ELSE a.result]

\* the run after the answer response of callApi to the latest call
RunOnResponse(r, response, ev) ==
    RunAfter(r, response, AgentAttempt(response, r.retryCount, ev))

\* the run once callApi was called with messages
RunCalled(r, messages, hasKey) ==
    IF hasKey
    THEN [r EXCEPT !.pc = "fetch", !.calls = @ + 1, !.sent = messages]
    ELSE [r EXCEPT !.pc = "returned", !.calls = @ + 1, !.sent = messages,
                   !.netFailure = TRUE,
                   !.result = callApi(FALSE, [kind |-> "throw", content |-> JNull])]

\* The synchronous start of one call of the agent function: the messages are
\* built from the array chatHistory as it is now and callApi is called; without
\* an API key callApi answers without a request and the function returns.
RunCall(r, chatHistory, hasKey) ==
    RunCalled(r, BuildMessages(r.agent, r.dataText, r.userMessage,
                               r.currentConfig, chatHistory), hasKey)

\* the backoff timer fires: the recursive call with retryCount + 1
RunRetry(r, chatHistory, hasKey) ==
    RunCall([r EXCEPT !.retryCount = @ + 1], chatHistory, hasKey)

(***************************************************************************)
(* State                                                                   *)
(***************************************************************************)
VARIABLES
    chatHistory,          \* content of the array app.chatHistory refers to
    chartConfig,          \* app.chartConfig
    selectedChartType,    \* app.selectedChartType
    dataInput,            \* value of the textarea #dataInput
    sendBtnDisabled,      \* #sendChatBtn.disabled
    loadingShown,         \* #loadingOverlay is displayed
    aiEnabled,            \* .ai-chat-section has the class ai-chat-enabled
    clearChatBtnDisabled, \* #clearChatBtn.disabled
    suggestionChips,      \* #suggestionPanel is displayed and holds chips
    apiKey,               \* the stored llm_api_config has an apiKey
    cgChart,              \* ChartGenerator.currentChart is an instance
    cgCurrentConfig,      \* ChartGenerator.currentConfig
    cgOption,             \* the option the instance displays (null: none)
    chartContainer,       \* what #chartContainer holds: "placeholder" or
                          \* "chart" (the DOM of the current instance)
    exportEnabled,        \* the export and share buttons are enabled
    tasks,                \* the outstanding turns (async calls in flight)
    turns,                \* the turns started since the page was loaded
    run,                  \* a run of the recovery loop on its own (SpecLoop)
    dpInput,              \* the argument rawData of a call of parseData
    dpResult              \* what that call returned (NotParsed: not yet)

appVars ==
    <<chatHistory, chartConfig, selectedChartType, dataInput, sendBtnDisabled,
      loadingShown, aiEnabled, clearChatBtnDisabled, suggestionChips, cgChart,
      cgCurrentConfig, cgOption, chartContainer, exportEnabled, tasks, turns>>

dpVars == <<dpInput, dpResult>>

vars == <<appVars, apiKey, run, dpVars>>

(***************************************************************************)
(* Bounds and input sets of the model                                      *)
(***************************************************************************)
\* turns that can be outstanding together
MaxTasks == 2

\* turns (chat messages sent, analyses started) of one session
MaxTurns == 3

TaskIds == 1..MaxTasks

DataText == "d1"

\* the texts of #chatInput and of suggestion chips
ChatTexts == {"m1"}

InitialRequest == "init"

\* what the suggestion agent can deliver to the turn: no suggestion, a list
\* of suggestions, or a value with a length on which displaySuggestions throws
SuggestionOutcomes == {"none", "list", "throwing"}

(***************************************************************************)
(* The handlers of ChartGeneratorApp and ChartGenerator as functions of    *)
(* the state st, a record of the variables a handler can change            *)
(***************************************************************************)
St ==
    [chatHistory |-> chatHistory, chartConfig |-> chartConfig,
     selectedChartType |-> selectedChartType, dataInput |-> dataInput,
     sendBtnDisabled |-> sendBtnDisabled,
     loadingShown |-> loadingShown, aiEnabled |-> aiEnabled,
     clearChatBtnDisabled |-> clearChatBtnDisabled,
     suggestionChips |-> suggestionChips, cgChart |-> cgChart,
     cgCurrentConfig |-> cgCurrentConfig, cgOption |-> cgOption,
     chartContainer |-> chartContainer, exportEnabled |-> exportEnabled]

Commit(st) ==
    /\ chatHistory' = st.chatHistory
    /\ chartConfig' = st.chartConfig
    /\ selectedChartType' = st.selectedChartType
    /\ dataInput' = st.dataInput
    /\ sendBtnDisabled' = st.sendBtnDisabled
    /\ loadingShown' = st.loadingShown
    /\ aiEnabled' = st.aiEnabled
    /\ clearChatBtnDisabled' = st.clearChatBtnDisabled
    /\ suggestionChips' = st.suggestionChips
    /\ cgChart' = st.cgChart
    /\ cgCurrentConfig' = st.cgCurrentConfig
    /\ cgOption' = st.cgOption
    /\ chartContainer' = st.chartContainer
    /\ exportEnabled' = st.exportEnabled

updateClearChatButtonState(st) ==
    [st EXCEPT !.clearChatBtnDisabled = ~st.aiEnabled \/ ~(Len(st.chatHistory) > 0)]

PushHistoryFront(history, entry) == <<entry>> \o history

\* this.chatHistory.push(entry)
PushHistory(history, entry) == Append(history, entry)

addAIMessage(st, content) ==
    updateClearChatButtonState(
        [st EXCEPT !.chatHistory =
                       PushHistory(@, [role |-> "assistant", content |-> content])])

addUserMessage(st, message) ==
    updateClearChatButtonState(
        [st EXCEPT !.chatHistory =
                       PushHistory(@, [role |-> "user", content |-> <<"text", message>>])])

addAILoadingMessage(st) == [st EXCEPT !.loadingShown = TRUE]

removeLastAIMessage(st) == [st EXCEPT !.loadingShown = FALSE]

clearChatMessages(st) == [st EXCEPT !.suggestionChips = FALSE]

showAIChatInterface(st) == updateClearChatButtonState([st EXCEPT !.aiEnabled = TRUE])

\* ChartGenerator.initChart
initChart(st) == [st EXCEPT !.cgChart = TRUE, !.cgOption = JNull, !.chartContainer = "chart"]

\* ChartGenerator.clearChart
clearChart(st) ==
    [st EXCEPT !.cgOption = JNull, !.chartContainer = "placeholder",
               !.exportEnabled = FALSE, !.cgCurrentConfig = JNull]

\* ChartGenerator.generateChartFromConfig from `this.currentConfig = config` on
renderConfig(st, config, setOptionOk) ==
    IF setOptionOk
    THEN [st EXCEPT !.cgCurrentConfig = config, !.cgOption = config,
                    !.exportEnabled = TRUE]
    ELSE [st EXCEPT !.cgCurrentConfig = config]

\* ChartGenerator.generateChartFromConfig(config, chartType); setOptionOk says
\* whether currentChart.setOption(config, true) returns or throws
generateChartFromConfig(st, config, setOptionOk) ==
    renderConfig(IF ~st.cgChart THEN initChart(st) ELSE st, config, setOptionOk)

\* app.generateChart
generateChart(st, setOptionOk) ==
    IF Falsy(st.chartConfig) \/ Falsy(st.selectedChartType) THEN st
    ELSE generateChartFromConfig(st, st.chartConfig, setOptionOk)

\* displaySuggestions(suggestions) for a list of suggestions
displaySuggestions(st) == [st EXCEPT !.suggestionChips = TRUE]

\* v[k] for a property name k that no prototype defines: threw = TRUE for the
\* TypeError of a read on null or undefined
Prop(v, k) ==
    IF v.t \in {"null", "undefined"} THEN [threw |-> TRUE, v |-> JUndef]
    ELSE IF v.t = "obj" THEN [threw |-> FALSE, v |-> ObjGet(v, k)]
    ELSE [threw |-> FALSE, v |-> JUndef]

KeySeries == <<"s", "e", "r", "i", "e", "s">>

KeyType == <<"t", "y", "p", "e">>

Bar == JStr(<<"b", "a", "r">>)

OrBar(v) == IF Falsy(v) THEN Bar ELSE v

\* detectChartType(config): threw = TRUE when it throws
detectChartType(config) ==
    LET series == Prop(config, KeySeries)
    IN IF series.threw THEN [threw |-> TRUE, v |-> JUndef]
       ELSE IF Falsy(series.v) THEN [threw |-> FALSE, v |-> Bar]
       ELSE IF series.v.t = "arr"
       THEN LET first == IF Len(series.v.items) > 0 THEN series.v.items[1] ELSE JUndef
            IN IF first.t \in {"null", "undefined"} THEN [threw |-> FALSE, v |-> Bar]
               ELSE [threw |-> FALSE, v |-> OrBar(Prop(first, KeyType).v)]
       ELSE [threw |-> FALSE, v |-> OrBar(Prop(series.v, KeyType).v)]

(***************************************************************************)
(* Turns: sendChatMessage and analyzeData with their awaits                *)
(*   pc   "idle", "config" (awaiting the config recovery loop, whose state *)
(*        is run), "suggest" (awaiting generateSuggestionsAgent)           *)
(*   histLive   the array passed as chatHistory is still app.chatHistory;  *)
(*        histSnap is its content once app.chatHistory refers to a new     *)
(*        array (nothing changes a replaced array any more)                *)
(***************************************************************************)
RawAgent == "generateChartConfigAgentWithRawData"

\* tasks: the turns under way, in the order in which they started
Task(kind, pc, r, histLive, histSnap, config, chartType) ==
    [kind |-> kind, pc |-> pc, run |-> r, histLive |-> histLive,
     histSnap |-> histSnap, config |-> config, chartType |-> chartType]

Busy(i) == i <= Len(tasks)

BusyCount == Len(tasks)

HasFreeSlot == Len(tasks) < MaxTasks

RemoveAt(seq, i) == SubSeq(seq, 1, i - 1) \o SubSeq(seq, i + 1, Len(seq))

\* the content of the array task t passed to the agent
TaskHistory(t) == IF t.histLive THEN chatHistory ELSE t.histSnap

\* this.chatHistory = []: the tasks that hold the old array keep its content
DetachHistory(ts, old) ==
    [i \in 1..Len(ts) |->
        IF ts[i].pc = "config" /\ ts[i].histLive
        THEN [ts[i] EXCEPT !.histLive = FALSE, !.histSnap = old]
        ELSE ts[i]]

IdleRun == NewRun(RawAgent, "", "", JNull)

Failure(error) == [success |-> FALSE, error |-> error]

\* processAIRequest(WithRawData) once detectChartType(config) returned or threw
afterDetect(config, ct) ==
    IF ct.threw
    THEN [final |-> TRUE, res |-> Failure(Err("TypeError", NoCount))]
    ELSE [final |-> FALSE,
          res |-> [success |-> TRUE, config |-> config, chartType |-> ct.v]]

\* processAIRequest(WithRawData) from the return of the agent to the call of
\* generateSuggestionsAgent: final = TRUE when it returns before that call
afterConfig(r) ==
    IF ~r.result.success
    THEN [final |-> TRUE, res |-> Failure(r.result.error)]
    ELSE afterDetect(r.result.config, detectChartType(r.result.config))

\* `if (result.suggestions && result.suggestions.length > 0)
\* this.displaySuggestions(result.suggestions)`; threw = TRUE when it throws
showSuggestions(st, suggestions) ==
    CASE suggestions = "list" -> [threw |-> FALSE, st |-> displaySuggestions(st)]
      [] suggestions = "throwing" ->
           [threw |-> TRUE, st |-> [st EXCEPT !.suggestionChips = FALSE]]
      [] OTHER -> [threw |-> FALSE, st |-> st]

\* the success branch of sendChatMessage and of generateInitialChart
applyConfig(st, res, suggestions, setOptionOk) ==
    showSuggestions(
        generateChart([st EXCEPT !.chartConfig = res.config,
                                 !.selectedChartType = OrBar(res.chartType)],
                      setOptionOk),
        suggestions)

\* the else branch of sendChatMessage: the turn ended in failure
chatTurnFailedResetting(st, res) ==
    addAIMessage([st EXCEPT !.chartConfig = JNull], <<"sorry", "">>)

chatTurnFailed(st, res) ==
    IF res.error.retried # NoCount
    THEN addAIMessage(st, <<"sorryRetried", "">>)
    ELSE addAIMessage(st, <<"sorry", "">>)

\* the catch block of sendChatMessage
chatTurnCaught(a) ==
    IF a.threw THEN addAIMessage(a.st, <<"sorryException", "">>) ELSE a.st

\* sendChatMessage without its finally block
chatTurnNoFinally(st) == st

\* the finally block of sendChatMessage
chatTurnFinally(st) == [st EXCEPT !.sendBtnDisabled = FALSE]

\* sendChatMessage after `await this.processAIRequest(message)` and
\* this.removeLastAIMessage()
chatTurnResult(st, res, suggestions, setOptionOk) ==
    IF res.success
    THEN chatTurnCaught(applyConfig(st, res, suggestions, setOptionOk))
    ELSE chatTurnFailed(st, res)

chatTurnDone(st, res, suggestions, setOptionOk) ==
    chatTurnFinally(
        chatTurnResult(removeLastAIMessage(st), res, suggestions, setOptionOk))

\* the else branch of generateInitialChart: only a notification
initialChartFailed(st, res) == st

\* generateInitialChart after its await
generateInitialChartDone(st, res, suggestions, setOptionOk) ==
    IF res.success
    THEN applyConfig(st, res, suggestions, setOptionOk).st
    ELSE initialChartFailed(st, res)

\* analyzeData after `await this.generateInitialChart()`
analyzeDataDone(st) ==
    addAIMessage(showAIChatInterface([st EXCEPT !.loadingShown = FALSE]),
                 <<"chartGenerated", "">>)

initTurnDone(st, res, suggestions, setOptionOk) ==
    analyzeDataDone(generateInitialChartDone(st, res, suggestions, setOptionOk))

turnDone(kind, st, res, suggestions, setOptionOk) ==
    IF kind = "chat" THEN chatTurnDone(st, res, suggestions, setOptionOk)
    ELSE initTurnDone(st, res, suggestions, setOptionOk)

\* the turn of task i (0: a turn that has no task) ends with the result res
EndTurn(i, kind, ts, st, res, suggestions, setOptionOk) ==
    /\ Commit(turnDone(kind, st, res, suggestions, setOptionOk))
    /\ tasks' = IF i = 0 THEN ts ELSE RemoveAt(ts, i)

\* the turn of task i after its config loop returned; a is afterConfig(run)
AfterLoop(i, kind, ts, st, a) ==
    IF a.final
    THEN EndTurn(i, kind, ts, st, a.res, "none", TRUE)
    ELSE IF apiKey
    THEN \* generateSuggestionsAgent awaits its model call
         /\ Commit(st)
         /\ tasks' = [ts EXCEPT ![i] =
                          Task(kind, "suggest", IdleRun, FALSE, <<>>,
                               a.res.config, a.res.chartType)]
    ELSE \* callApi answers at once: no suggestions
         \E setOptionOk \in BOOLEAN :
             EndTurn(i, kind, ts, st, a.res, "none", setOptionOk)

\* The turn of task i (i = 0: a turn that starts in this step) goes on from
\* the state st after its run r made a step.
Continue(i, kind, r, ts, st) ==
    IF r.pc # "returned"
    THEN /\ Commit(st)
         /\ tasks' = IF i = 0
                      THEN Append(ts, Task(kind, "config", r, TRUE, <<>>, JNull, JNull))
                      ELSE [ts EXCEPT ![i].run = r]
    ELSE AfterLoop(i, kind, ts, st, afterConfig(r))

\* the bounds of the model let one more turn start
MayStartTurn ==
    /\ HasFreeSlot
    /\ turns < MaxTurns

\* sendChatMessage from `await this.processAIRequest(message)` on; st is the
\* state after the synchronous part
startTurn(kind, st, v) ==
    Continue(0, kind,
             RunCall(NewRun(RawAgent, st.dataInput, v, st.chartConfig),
                     st.chatHistory, apiKey),
             tasks, st)

\* sendChatMessage() when #chatInput holds the non-blank text v
sendChatMessage(v) ==
    /\ dataInput # ""
    /\ MayStartTurn
    /\ startTurn("chat",
                 addAILoadingMessage(
                     [addUserMessage(St, v) EXCEPT !.sendBtnDisabled = TRUE]),
                 v)
    /\ turns' = turns + 1
    /\ UNCHANGED <<apiKey, run, dpVars>>

\* click on #sendChatBtn
ClickSend == ~sendBtnDisabled /\ \E v \in ChatTexts : sendChatMessage(v)

\* Enter in #chatInput
PressEnter == \E v \in ChatTexts : sendChatMessage(v)

\* click on a suggestion chip: handleSuggestionClick(suggestion)
ClickSuggestion ==
    /\ suggestionChips
    /\ \E v \in ChatTexts : sendChatMessage(v)

\* analyzeData()
AnalyzeData ==
    /\ dataInput # ""
    /\ MayStartTurn
    /\ startTurn("init", [St EXCEPT !.loadingShown = TRUE], InitialRequest)
    /\ turns' = turns + 1
    /\ UNCHANGED <<apiKey, run, dpVars>>

\* The answers the application model draws from: a failed request and one
\* text of each kind that no Function evaluation is reached for (an object, a
\* fenced object with a series type, null, prose).
AppNetOutcomes ==
    {[kind |-> "throw", content |-> JNull]}
        \cup {[kind |-> "ok", content |-> JStr(x)] :
                  x \in {TextObjA, TextFencedPie, TextNull, TextProse}}

NoEval == [threw |-> TRUE, v |-> JUndef]

\* the run of task i after the answer net to its model call
Answered(i, net) == RunOnResponse(tasks[i].run, callApi(TRUE, net), NoEval)

AwaitsAnswer(i) == Busy(i) /\ tasks[i].pc = "config" /\ tasks[i].run.pc = "fetch"

\* the model call of the config loop of task i is answered with net
ConfigAnswer(i, net) ==
    /\ AwaitsAnswer(i)
    /\ Continue(i, tasks[i].kind, Answered(i, net), tasks, St)
    /\ UNCHANGED <<apiKey, run, turns, dpVars>>

ConfigResponse(i) == \E net \in AppNetOutcomes : ConfigAnswer(i, net)

\* the backoff timer of the config loop of task i fires
ConfigTimer(i) ==
    /\ Busy(i) /\ tasks[i].pc = "config" /\ tasks[i].run.pc = "backoff"
    /\ Continue(i, tasks[i].kind,
                RunRetry(tasks[i].run, TaskHistory(tasks[i]), apiKey), tasks, St)
    /\ UNCHANGED <<apiKey, run, turns, dpVars>>

\* generateSuggestionsAgent of task i returns
SuggestResponse(i) ==
    /\ Busy(i) /\ tasks[i].pc = "suggest"
    /\ \E suggestions \in SuggestionOutcomes, setOptionOk \in BOOLEAN :
           EndTurn(i, tasks[i].kind, tasks, St,
                   [success |-> TRUE, config |-> tasks[i].config,
                    chartType |-> tasks[i].chartType],
                   suggestions, setOptionOk)
    /\ UNCHANGED <<apiKey, run, turns, dpVars>>

\* clearData()
ClearData ==
    /\ Commit([clearChart(clearChatMessages(
                  [St EXCEPT !.dataInput = "", !.selectedChartType = JNull,
                             !.chartConfig = JNull, !.aiEnabled = FALSE]))
               EXCEPT !.chatHistory = <<>>])
    /\ tasks' = DetachHistory(tasks, chatHistory)
    /\ UNCHANGED <<apiKey, run, turns, dpVars>>

\* clearChatHistory(), the confirm dialog answered with OK
ClearChatHistory ==
    /\ ~clearChatBtnDisabled
    /\ Commit(updateClearChatButtonState(
                  [clearChatMessages(St) EXCEPT !.chatHistory = <<>>]))
    /\ tasks' = DetachHistory(tasks, chatHistory)
    /\ UNCHANGED <<apiKey, run, turns, dpVars>>

\* the user types into #dataInput
TypeData ==
    /\ dataInput # DataText
    /\ dataInput' = DataText
    /\ UNCHANGED <<chatHistory, chartConfig, selectedChartType, sendBtnDisabled,
                   loadingShown, aiEnabled, clearChatBtnDisabled, suggestionChips,
                   cgChart, cgCurrentConfig, cgOption, chartContainer,
                   exportEnabled, tasks, turns, apiKey, run, dpVars>>

\* saveApiConfig() with an API key in the form
SaveApiConfig ==
    /\ ~apiKey
    /\ apiKey' = TRUE
    /\ UNCHANGED <<appVars, run, dpVars>>

\* clearApiConfig(), the confirm dialog answered with OK
ClearApiConfig ==
    /\ apiKey
    /\ apiKey' = FALSE
    /\ UNCHANGED <<appVars, run, dpVars>>

AppInit ==
    /\ chatHistory = <<>>
    /\ chartConfig = JNull
    /\ selectedChartType = JNull
    /\ dataInput = ""
    /\ sendBtnDisabled = FALSE
    /\ loadingShown = FALSE
    /\ aiEnabled = FALSE
    /\ clearChatBtnDisabled = TRUE
    /\ suggestionChips = FALSE
    /\ cgChart = FALSE
    /\ cgCurrentConfig = JNull
    /\ cgOption = JNull
    /\ chartContainer = "placeholder"
    /\ exportEnabled = FALSE
    /\ tasks = <<>>
    /\ turns = 0

\* the state after the construction of the application; the stored API
\* configuration may or may not hold a key
Init ==
    /\ AppInit
    /\ apiKey \in BOOLEAN
    /\ run = IdleRun
    /\ dpInput = JUndef
    /\ dpResult = NotParsed

Next ==
    \/ ClickSend
    \/ PressEnter
    \/ ClickSuggestion
    \/ AnalyzeData
    \/ \E i \in TaskIds : ConfigResponse(i)
    \/ \E i \in TaskIds : ConfigTimer(i)
    \/ \E i \in TaskIds : SuggestResponse(i)
    \/ ClearData
    \/ ClearChatHistory
    \/ TypeData

Spec == Init /\ [][Next]_vars

ConfigLoops == {i \in 1..Len(tasks) : tasks[i].pc = "config"}

\* C4: at most one config recovery loop is outstanding at any time, whatever
\* the user does (send button, Enter key, suggestion chip, analyze button).
C4_OneLoopOutstanding == Cardinality(ConfigLoops) <= 1

RenderedConfig == <<chartConfig, selectedChartType, cgCurrentConfig, cgOption>>

\* the loop r has returned and the turn ends in failure (a failure of the
\* loop, or the exception of detectChartType on its result)
TurnFailed(r) == r.pc = "returned" /\ ~afterConfig(r).res.success

\* a step in which a chat turn or an initial generation ends in failure
TurnEndsInFailure ==
    \/ ~apiKey /\ (ClickSend \/ PressEnter \/ ClickSuggestion \/ AnalyzeData)
    \/ \E i \in TaskIds :
           /\ Busy(i) /\ tasks[i].pc = "config" /\ tasks[i].run.pc = "backoff"
           /\ ~apiKey
           /\ ConfigTimer(i)
    \/ \E i \in TaskIds, net \in AppNetOutcomes :
           /\ AwaitsAnswer(i)
           /\ TurnFailed(Answered(i, net))
           /\ ConfigAnswer(i, net)

\* C5 as stated: a turn that ends in failure leaves app.chartConfig as it was
\* before the turn started.  Checked on the turns that start with a rendered
\* configuration as the second turn of the session, that is after the first
\* turn has ended in success: no other turn overlaps them.
C5_ConfigAsBeforeTurn ==
    [][\A i \in TaskIds, net \in AppNetOutcomes :
           ( /\ AwaitsAnswer(i)
             /\ turns = 2 /\ Len(tasks) = 1
             /\ tasks[i].run.currentConfig # JNull
             /\ TurnFailed(Answered(i, net))
             /\ ConfigAnswer(i, net) )
           => chartConfig' = tasks[i].run.currentConfig]_vars

\* C5, amended: the step in which a chat turn or an initial generation ends
\* in failure changes none of app.chartConfig, app.selectedChartType,
\* ChartGenerator.currentConfig and the option the chart displays.
C5_FailureAppliesNothing ==
    [][UNCHANGED RenderedConfig \/ ~TurnEndsInFailure]_vars

Last(seq) == seq[Len(seq)]

\* a turn has ended in failure while a configuration is rendered
C5_Witness ==
    /\ chartConfig # JNull /\ cgOption # JNull
    /\ chatHistory # <<>>
    /\ Last(chatHistory).content[1] \in {"sorry", "sorryRetried"}

\* what the next call of the loop of task t sends, should its timer fire now
NextMessages(t) ==
    BuildMessages(t.run.agent, t.run.dataText, t.run.userMessage,
                  t.run.currentConfig, TaskHistory(t))

\* C6: within one config recovery loop, the message list of attempt n + 1 is
\* the message list of attempt n, under every interleaving of other events
\* of the application with the backoff wait.
C6_RetrySendsSameMessages ==
    [][\A i \in TaskIds :
           ConfigTimer(i) => NextMessages(tasks[i]) = tasks[i].run.sent]_vars

IsPrefix(p, q) == Len(p) <= Len(q) /\ SubSeq(q, 1, Len(p)) = p

\* C7 as stated: app.chatHistory is append-only: every step leaves the value
\* it had as a prefix of its new value.
C7_AppendOnly == [][IsPrefix(chatHistory, chatHistory')]_vars

\* C7, amended: every step leaves the value of app.chatHistory as a prefix of
\* its new value, except the steps of clearChatHistory and clearData, which
\* replace it by an empty array.
C7_AppendOnlyUntilCleared ==
    [][\/ IsPrefix(chatHistory, chatHistory')
       \/ (ClearChatHistory \/ ClearData) /\ chatHistory' = <<>>]_vars

\* entries were appended and the history was then cleared: a loop under way
\* still holds the replaced, non-empty array
C7_Witness ==
    /\ chatHistory = <<>>
    /\ \E i \in 1..Len(tasks) :
           tasks[i].pc = "config" /\ ~tasks[i].histLive /\ tasks[i].histSnap # <<>>

(***************************************************************************)
(* The config recovery loop on its own: runs of generateChartConfigAgent   *)
(* and generateChartConfigAgentWithRawData that start with retryCount 0,   *)
(* one after the other, with every answer the endpoint can give            *)
(***************************************************************************)
LoopConfigs == {JNull, JObj(<< <<"a">> >>, <<JNum(1)>>)}

\* a caller starts the agent function with retryCount 0
LoopStart ==
    /\ run.pc \in {"new", "returned"}
    /\ \E agent \in Agents, currentConfig \in LoopConfigs :
           run' = RunCall(NewRun(agent, DataText, InitialRequest, currentConfig),
                          chatHistory, apiKey)
    /\ UNCHANGED <<appVars, apiKey, dpVars>>

\* callApi of the latest call is answered with net; ev is what the Function
\* evaluation does if it is reached
LoopAnswer(net, ev) ==
    /\ run.pc = "fetch"
    /\ run' = RunOnResponse(run, callApi(TRUE, net), ev)
    /\ UNCHANGED <<appVars, apiKey, dpVars>>

\* callApi of the latest call is answered
LoopResponse ==
    \E net \in NetOutcomes(ResponseContents), ev \in EvalOutcomes : LoopAnswer(net, ev)

\* the backoff timer fires
LoopTimer ==
    /\ run.pc = "backoff"
    /\ run' = RunRetry(run, chatHistory, apiKey)
    /\ UNCHANGED <<appVars, apiKey, dpVars>>

LoopNext ==
    \/ LoopStart
    \/ LoopResponse
    \/ LoopTimer
    \/ SaveApiConfig
    \/ ClearApiConfig

SpecLoop == Init /\ [][LoopNext]_vars

Returned == run.pc = "returned"

\* C1: when every model call of a run returned transport success, the calls
\* are issued one after another until the first answer that parses: a run
\* never issues more than maxRetries + 1 calls, every call but the one in
\* flight was answered with an unparsable text while the run goes on, a run
\* that returns success made exactly one call more than it saw unparsable
\* answers (k calls when the k-th answer is the first that parses), and a run
\* that returns failure made exactly maxRetries + 1 calls, all of them
\* unparsable, and its error text names maxRetries retries.
C1_CallsUntilFirstParse ==
    /\ run.calls <= maxRetries + 1
    /\ run.calls = run.retryCount + (IF run.pc = "new" THEN 0 ELSE 1)
    /\ ~run.netFailure =>
          /\ run.pc = "fetch" => run.parseFailures = run.calls - 1
          /\ run.pc = "backoff" =>
                run.parseFailures = run.calls /\ run.calls <= maxRetries
          /\ Returned /\ run.result.success =>
                run.calls = run.parseFailures + 1
          /\ Returned /\ ~run.result.success =>
                /\ run.calls = maxRetries + 1
                /\ run.parseFailures = maxRetries + 1
                /\ run.result.error.retried = maxRetries

\* a run that failed after six unparsable answers
C1_Witness ==
    /\ Returned /\ ~run.netFailure /\ ~run.result.success
    /\ run.calls = maxRetries + 1

\* C2: a failed model call (callApi result with success = false) ends the run
\* at once with that failure: the run is returned, its result is the failure
\* of callApi, and the failed call was the last one (one call per unparsable
\* answer before it, plus the failed call).
C2_CallFailureReturnsAtOnce ==
    run.netFailure =>
        /\ Returned
        /\ ~run.result.success
        /\ run.result.error.kind \in {"noApiKey", "http", "badFormat", "callFailed"}
        /\ run.result.error.retried = NoCount
        /\ run.calls = run.parseFailures + 1

\* a failed call after parse failures
C2_Witness == run.netFailure /\ Returned /\ run.parseFailures >= 2

\* C3: every configuration a run returns with success = true is an object at
\* the top level (not null, an array, a number, a string or a boolean).
C3_ConfigIsObject ==
    Returned /\ run.result.success => run.result.config.t = "obj"

(***************************************************************************)
(* DataProcessor.parseData on its own: one call for every input text       *)
(***************************************************************************)
\* lines of an input text
MaxLines == 3

\* elements of a JSON array
MaxElems == 3

\* the lines the input texts are made of: headers and data lines separated
\* by commas and by tabs, with repeated and empty names, an array index as
\* name, quoted fields, numbers, booleans and dates, and blank lines
LineTexts ==
    { <<"a", ",", "b">>,
      <<"1", ",", "2">>,
      <<"3", ",", "4">>,
      <<"a", ",", "a">>,
      <<",">>,
      <<>>,
      <<" ">>,
      <<"1">>,
      <<"b", ",", "1">>,
      <<"x", ",", "T", "R", "U", "E">>,
      <<"\"", "a", ",", "b", "\"", ",", "1", "e", "3">>,
      <<"a", "\t", "b">>,
      <<"1", "\t", "2">>,
      <<"a", "\t", "a">>,
      <<"a", ",", "b", "\t", "c">>,
      <<"1", ",", "2", "\t", "3">>,
      <<"2", "0", "2", "4", "-", "0", "2", "-", "3", "0", ",", "2", ".", "5">> }

\* the texts of the elements of the JSON inputs: objects with the same keys
\* in either order, with other keys, with nested values and without keys,
\* values that are no objects, and a text that is no JSON
ElementTexts ==
    { <<"{", "\"", "a", "\"", ":", "1", ",", "\"", "b", "\"", ":", "2", "}">>,
      <<"{", "\"", "b", "\"", ":", "3", ",", "\"", "a", "\"", ":", "4", "}">>,
      <<"{", "\"", "a", "\"", ":", "1", "}">>,
      <<"{", "\"", "a", "\"", ":", "1", ",", "\"", "c", "\"", ":", "2", "}">>,
      <<"1">>,
      <<"n", "u", "l", "l">>,
      <<"[", "1", ",", "2", "]">>,
      <<"{", "\"", "a", "\"", ":", "[", "1", "]", ",", "\"", "b", "\"", ":", "{", "\"", "c", "\"", ":", "1", "}", "}">>,
      <<"{", "}">>,
      <<"x">> }

\* the sequences of at most n elements of S
SeqsUpTo(S, n) == UNION {[1..k -> S] : k \in 0..n}

\* parts.join(sep)
RECURSIVE Join(_, _)
Join(parts, sep) ==
    IF Len(parts) = 0 THEN <<>>
    ELSE IF Len(parts) = 1 THEN parts[1]
    ELSE parts[1] \o <<sep>> \o Join(Tail(parts), sep)

\* the text of the lines ls
LinesInput(ls) == JStr(Join(ls, "\n"))

\* the text of the JSON array of the elements es
ArrayInput(es) == JStr(<<"[">> \o Join(es, ",") \o <<"]">>)

\* DataProcessor.parseData(dpInput) is called and returns or throws
ParseData ==
    /\ dpResult = NotParsed
    /\ \E legacyDate \in BOOLEAN : dpResult' = parseData(dpInput, legacyDate)
    /\ UNCHANGED <<appVars, apiKey, run, dpInput>>

\* the values parseData is called with: no value, a number, the texts of at
\* most MaxLines lines, the JSON arrays of at most MaxElems elements and the
\* element texts by themselves
InitData ==
    /\ AppInit
    /\ apiKey = FALSE
    /\ run = IdleRun
    /\ \/ dpInput \in {JNull, JUndef, JNum(0), JNum(5)}
       \/ \E ls \in SeqsUpTo(LineTexts, MaxLines) : dpInput = LinesInput(ls)
       \/ \E es \in SeqsUpTo(ElementTexts, MaxElems) : dpInput = ArrayInput(es)
       \/ \E e \in ElementTexts : dpInput = JStr(e)
    /\ dpResult = NotParsed

NextData == ParseData

SpecData == InitData /\ [][NextData]_vars

\* parseData has returned a result for a text
ParsedText == dpInput.t = "str" /\ dpResult # NotParsed /\ dpResult # ParseThrew

\* parseData has returned a success
Succeeded == dpResult # NotParsed /\ dpResult # ParseThrew /\ dpResult.success

\* C8: for every input text parseData returns (it does not throw) exactly
\* one of two shapes: success = true with data, columns and format and no
\* error, or success = false with an error message and none of data, columns
\* and format.
C8_OneOfTwoShapes ==
    dpInput.t = "str" /\ dpResult # NotParsed =>
        /\ dpResult # ParseThrew
        /\ \/ /\ DOMAIN dpResult = {"success", "data", "columns", "format"}
              /\ dpResult.success = TRUE
           \/ /\ DOMAIN dpResult = {"success", "error"}
              /\ dpResult.success = FALSE
              /\ "kind" \in DOMAIN dpResult.error

\* a text with a data line of the wrong field count was refused
C8_Witness ==
    /\ ParsedText
    /\ ~dpResult.success
    /\ dpResult.error.kind = "columnCount"

\* C9: in every successful result, all records list the same keys in the
\* same order, the order of the returned columns.
C9_RecordsFollowColumns ==
    Succeeded =>
        \A i \in 1..Len(dpResult.data) :
            ObjectKeys(dpResult.data[i]) = dpResult.columns

\* C10: in every successful result the columns are pairwise distinct and
\* every record has as many keys as there are columns.
C10_DistinctColumns ==
    Succeeded =>
        /\ \A i, j \in 1..Len(dpResult.columns) :
               i # j => dpResult.columns[i] # dpResult.columns[j]
        /\ \A i \in 1..Len(dpResult.data) :
               Len(ObjectKeys(dpResult.data[i])) = Len(dpResult.columns)

\* the cells of a record: the values of its properties
Cells(record) == IF record.t = "arr" THEN record.items ELSE record.vals

\* C11: in every successful result every cell of every record is null, a
\* number, a boolean, a date or a string: no record holds an object or an
\* array as a cell, for JSON input as for CSV and TSV input.
C11_CellsAreScalars ==
    Succeeded =>
        \A i \in 1..Len(dpResult.data) :
            \A j \in 1..Len(Cells(dpResult.data[i])) :
                Cells(dpResult.data[i])[j].t
                    \in {"null", "num", "dec", "NaN", "bool", "date", "str"}

\* the value is no text at all or a text of white space only
IsBlankInput(rawData) ==
    \/ rawData \in {JNull, JUndef}
    \/ rawData.t = "str" /\ \A i \in 1..Len(rawData.s) : IsWs(rawData.s[i])

\* C12: on empty, whitespace-only, null or undefined input parseData returns
\* the failure with the 'empty' error, which none of the JSON, CSV and TSV
\* paths produces.
C12_EmptyInputFails ==
    IsBlankInput(dpInput) /\ dpResult # NotParsed => dpResult = ParseFailure("empty")

\* a text of white space only was refused as empty
C12_Witness ==
    /\ dpInput.t = "str" /\ Len(dpInput.s) >= 2
    /\ IsBlankInput(dpInput)
    /\ dpResult = ParseFailure("empty")

\* the set of the keys of an object or an array
KeySet(v) == {ObjectKeys(v)[k] : k \in 1..Len(ObjectKeys(v))}

\* r, the outcome of JSON.parse, is an array of objects with one key set
IsUniformArray(r) ==
    /\ r.ok
    /\ r.v.t = "arr"
    /\ \A i \in 1..Len(r.v.items) :
           r.v.items[i].t = "obj" /\ KeySet(r.v.items[i]) = KeySet(r.v.items[1])

\* result is a success with format json, the keys of element 0 as columns
\* and one record for each element of items
IsJsonSuccess(result, items) ==
    /\ result.success
    /\ result.format = "json"
    /\ Len(result.data) = Len(items)
    /\ Len(items) > 0 => result.columns = ObjectKeys(items[1])

\* the text of a call that has returned
TextParsed == dpInput.t = "str" /\ dpResult # NotParsed

UniformArraySucceeds(r, result) == IsUniformArray(r) => IsJsonSuccess(result, r.v.items)

\* C13 as stated: every well-formed JSON array of objects with one key set,
\* the array without elements included, is a success with format json, the
\* key order of element 0 as columns and one record for each element.
C13_UniformArraySucceeds ==
    TextParsed => UniformArraySucceeds(JsonParse(Trim(dpInput.s)), dpResult)

NonEmptyUniformArraySucceeds(r, result) ==
    IsUniformArray(r) =>
        IF Len(r.v.items) = 0 THEN result = ParseFailure("jsonEmptyArray")
        ELSE IsJsonSuccess(result, r.v.items)

\* C13, amended: every well-formed JSON array of at least one object, all
\* with one key set in whatever order, is a success with format json, the
\* key order of element 0 as columns and one record for each element; the
\* array without elements is refused as an empty array.
C13_NonEmptyUniformArraySucceeds ==
    TextParsed => NonEmptyUniformArraySucceeds(JsonParse(Trim(dpInput.s)), dpResult)

\* an array whose second object lists the keys in another order was accepted
C13_Witness ==
    /\ Succeeded
    /\ dpResult.format = "json"
    /\ Len(dpResult.data) >= 2
    /\ dpResult.data[2].t = "obj"
    /\ dpResult.data[2].keys # dpResult.columns

\* the element i of items is not an object, or its keys are not the keys of
\* element 0
Offending(items, i) ==
    NotAnObject(items[i]) \/ KeySet(items[i]) # KeySet(items[1])

\* the 1-based position of the first offending element of items
FirstOffending(items) ==
    CHOOSE i \in 1..Len(items) :
        Offending(items, i) /\ \A j \in 1..(i - 1) : ~Offending(items, j)

\* r, the outcome of JSON.parse, is a non-empty array of objects with the
\* keys of element 0
IsObjectArray(r) ==
    /\ r.ok
    /\ r.v.t = "arr"
    /\ Len(r.v.items) > 0
    /\ \A i \in 1..Len(r.v.items) : ~Offending(r.v.items, i)

\* the cause of a failure is an element of the array
ElementIsCause(r) ==
    r.ok /\ r.v.t = "arr" /\ Len(r.v.items) > 0 /\ ~IsObjectArray(r)

NamesRow(result, row) ==
    "row" \in DOMAIN result.error /\ result.error.row = row

OnJsonPath == TextParsed /\ isJsonFormat(Trim(dpInput.s))

JsonOutcomeNamesElement(r, result) ==
    /\ result.success <=> IsObjectArray(r)
    /\ ElementIsCause(r) => NamesRow(result, FirstOffending(r.v.items))

\* C14 as stated: on the JSON path the call succeeds exactly when the text
\* parses as a non-empty array of non-null objects with the key set of
\* element 0, and a failure caused by an element names the 1-based position
\* of the first offending element.
C14_JsonOutcomeNamesElement ==
    OnJsonPath => JsonOutcomeNamesElement(JsonParse(Trim(dpInput.s)), dpResult)

JsonOutcomeNamesLaterElement(r, result) ==
    /\ result.success <=> IsObjectArray(r)
    /\ ElementIsCause(r) =>
           IF FirstOffending(r.v.items) = 1
           THEN result = ParseFailure("jsonElementNotObject")
           ELSE NamesRow(result, FirstOffending(r.v.items))

\* C14, amended: on the JSON path the call succeeds exactly when the text
\* parses as a non-empty array of non-null objects with the key set of
\* element 0; a failure caused by an element after element 0 names the
\* 1-based position of the first offending element, and element 0 not being
\* an object is reported without a position.
C14_JsonOutcomeNamesLaterElement ==
    OnJsonPath => JsonOutcomeNamesLaterElement(JsonParse(Trim(dpInput.s)), dpResult)

\* the third element was the first offending one and the error names row 3
C14_Witness ==
    /\ OnJsonPath
    /\ ~dpResult.success
    /\ NamesRow(dpResult, 3)

\* the path parseData takes on the trimmed text
PathOf(trimmedData) ==
    IF isJsonFormat(trimmedData) THEN "json"
    ELSE IF isCsvFormat(trimmedData) THEN "csv"
    ELSE IF isTsvFormat(trimmedData) THEN "tsv"
    ELSE "csv"

\* the fields of a line on the path format
FieldsOf(line, format) ==
    IF format = "tsv" THEN Split(line, "\t") ELSE parseCsvLine(line)

\* the line i of the text is a data line whose field count is not the
\* header's; the header is lines[1], as the text is trimmed
BadLine(lines, i, format) ==
    /\ i > 1
    /\ NonBlank(lines[i])
    /\ Len(FieldsOf(lines[i], format)) # Len(FieldsOf(lines[1], format))

FirstBadLine(lines, format) ==
    CHOOSE i \in 1..Len(lines) :
        BadLine(lines, i, format) /\ \A j \in 1..(i - 1) : ~BadLine(lines, j, format)

RowErrorNamesLine(lines, format, result) ==
    (\E i \in 1..Len(lines) : BadLine(lines, i, format)) =>
        result = RowCountMismatch(FirstBadLine(lines, format),
                                  Len(FieldsOf(lines[1], format)),
                                  Len(FieldsOf(lines[FirstBadLine(lines, format)], format)))

OnLinePath == TextParsed /\ Trim(dpInput.s) # <<>> /\ ~isJsonFormat(Trim(dpInput.s))

\* C15: on the CSV and TSV paths a data line whose field count differs from
\* the header's makes the call fail without records, and the error names the
\* first such line by its 1-based number among the lines of the text (header
\* = 1), with the expected and the actual count, blank lines counted.
C15_RowErrorNamesLine ==
    OnLinePath =>
        RowErrorNamesLine(Split(Trim(dpInput.s), "\n"), PathOf(Trim(dpInput.s)), dpResult)

\* ---- parseCsvLine by itself ----

MaxLineLen == 5

\* the characters of the lines parseCsvLine is called with
LineChars == {"a", "b", ",", "\""}

\* what a call of parseCsvLine returns
LineFields(fields) == [fields |-> fields]

\* DataProcessor.parseCsvLine(dpInput) is called and returns
ParseLine ==
    /\ dpResult = NotParsed
    /\ dpResult' = LineFields(parseCsvLine(dpInput.s))
    /\ UNCHANGED <<appVars, apiKey, run, dpInput>>

\* the lines parseCsvLine is called with: every text of at most MaxLineLen
\* characters of LineChars
InitLine ==
    /\ AppInit
    /\ apiKey = FALSE
    /\ run = IdleRun
    /\ \E line \in SeqsUpTo(LineChars, MaxLineLen) : dpInput = JStr(line)
    /\ dpResult = NotParsed

NextLine == ParseLine

SpecLine == InitLine /\ [][NextLine]_vars

\* what each character of line is from the position i (0-based) on, a quote
\* being open or not before it: a separator, a delimiter, the first quote
\* of a doubled quote ("escape"), its second quote ("quote"), or a
\* character of a field ("char")
RECURSIVE Classes(_, _, _)
Classes(line, i, open) ==
    IF i >= Len(line) THEN <<>>
    ELSE IF line[i + 1] = "\"" /\ open /\ i + 1 < Len(line) /\ line[i + 2] = "\""
    THEN <<"escape", "quote">> \o Classes(line, i + 2, open)
    ELSE IF line[i + 1] = "\"" THEN <<"delimiter">> \o Classes(line, i + 1, ~open)
    ELSE IF line[i + 1] = "," /\ ~open THEN <<"separator">> \o Classes(line, i + 1, open)
    ELSE <<"char">> \o Classes(line, i + 1, open)

\* the characters of line at the positions p and later that keep holds
RECURSIVE CharsAt(_, _, _)
CharsAt(line, keep, p) ==
    IF p > Len(line) THEN <<>>
    ELSE (IF keep[p] THEN <<line[p]>> ELSE <<>>) \o CharsAt(line, keep, p + 1)

\* the number of separators of classes before the position p
SeparatorsBefore(classes, p) ==
    Cardinality({q \in 1..(p - 1) : classes[q] = "separator"})

\* the field k of a line with the classes: its characters and second
\* quotes of doubled quotes after k - 1 separators
FieldBetween(line, classes, k) ==
    CharsAt(line,
            [p \in 1..Len(line) |->
                /\ classes[p] \in {"char", "quote"}
                /\ SeparatorsBefore(classes, p) = k - 1],
            1)

SplitsAtOutsideCommas(line, classes, fields) ==
    /\ Len(fields) = 1 + SeparatorsBefore(classes, Len(line) + 1)
    /\ \A k \in 1..Len(fields) : fields[k] = FieldBetween(line, classes, k)

LineParsed == dpInput.t = "str" /\ dpResult # NotParsed

\* C16: parseCsvLine returns 1 + (commas read while no quote is open)
\* fields; each field holds, in order, the characters between two such
\* commas, a comma inside an open quote included, one quote for each
\* doubled quote inside an open quote, and no delimiting quote.
C16_SplitsAtOutsideCommas ==
    LineParsed =>
        SplitsAtOutsideCommas(dpInput.s, Classes(dpInput.s, 0, FALSE), dpResult.fields)

\* the line "a,b" in quotes gave the single field a,b
C16_Witness ==
    /\ LineParsed
    /\ dpInput.s = <<"\"", "a", ",", "b", "\"">>
    /\ dpResult.fields = << <<"a", ",", "b">> >>

\* ---- parseValue by itself ----

MaxCellLen == 4

\* the characters of the generated cells
CellChars == {"0", "1", ".", "-", "x", "a"}

\* cells of the other rules: booleans in several letter cases, texts of the
\* five date patterns with and without a calendar date, literals with an
\* exponent or a sign, plain texts
CellTexts ==
    { <<"t", "r", "u", "e">>, <<"T", "r", "u", "e">>, <<"F", "A", "L", "S", "E">>,
      <<"f", "a", "l", "s", "e">>, <<"t", "r", "u", "e", "x">>, <<"y", "e", "s">>,
      <<"2", "0", "2", "4", "-", "0", "1", "-", "1", "5">>,
      <<"2", "0", "2", "4", "-", "0", "2", "-", "3", "0">>,
      <<"2", "0", "2", "4", "-", "1", "3", "-", "0", "1">>,
      <<"2", "0", "2", "4", "/", "0", "1", "/", "1", "5">>,
      <<"0", "1", "/", "1", "5", "/", "2", "0", "2", "4">>,
      <<"1", "5", "/", "0", "1", "/", "2", "0", "2", "4">>,
      <<"0", "1", "-", "1", "5", "-", "2", "0", "2", "4">>,
      <<"2", "0", "2", "4", "-", "0", "1", "-", "1", "5", " ",
        "1", "0", ":", "0", "0", ":", "0", "0">>,
      <<"2", "0", "2", "4", "-", "1", "-", "5">>,
      <<"1", "e", "3">>, <<"2", ".", "5", "e", "1">>, <<"1", "E", "-", "2">>,
      <<"+", "1", "0">>, <<"1", "e">>, <<"0", "X", "1", "F">>, <<"-", "0", "x", "1">>,
      <<"1", " ", "2">>, <<"1", ",", "5">> }

\* what a call of parseValue returns
CellValue(value) == [value |-> value]

\* DataProcessor.parseValue(dpInput) is called and returns
ParseCell ==
    /\ dpResult = NotParsed
    /\ \E legacyDate \in BOOLEAN :
           dpResult' = CellValue(parseValue(dpInput.s, legacyDate))
    /\ UNCHANGED <<appVars, apiKey, run, dpInput>>

\* the cells parseValue is called with, all trimmed as at its two call
\* sites: the texts of at most MaxCellLen characters of CellChars and the
\* texts of CellTexts
InitCell ==
    /\ AppInit
    /\ apiKey = FALSE
    /\ run = IdleRun
    /\ \/ \E cell \in SeqsUpTo(CellChars, MaxCellLen) : dpInput = JStr(cell)
       \/ \E cell \in CellTexts : dpInput = JStr(cell)
    /\ dpResult = NotParsed

NextCell == ParseCell

SpecCell == InitCell /\ [][NextCell]_vars

AllDigits(s) == \A i \in 1..Len(s) : IsDigit(s[i])

\* digits, digits.digits, digits. or .digits
IsMantissaText(m) ==
    \E k \in 0..Len(m) :
        /\ AllDigits(SubSeq(m, 1, k))
        /\ \/ k = Len(m) /\ k > 0
           \/ /\ k < Len(m)
              /\ m[k + 1] = "."
              /\ AllDigits(SubSeq(m, k + 2, Len(m)))
              /\ Len(m) > 1

\* nothing, or e or E, an optional sign and digits
IsExponentText(e) ==
    \/ e = <<>>
    \/ /\ Len(e) >= 2
       /\ e[1] \in {"e", "E"}
       /\ IF e[2] \in {"+", "-"}
          THEN Len(e) >= 3 /\ AllDigits(SubSeq(e, 3, Len(e)))
          ELSE AllDigits(SubSeq(e, 2, Len(e)))

IsUnsignedDecimalText(u) ==
    \E k \in 1..Len(u) :
        IsMantissaText(SubSeq(u, 1, k)) /\ IsExponentText(SubSeq(u, k + 1, Len(u)))

\* 0x, 0o or 0b and at least one digit of the radix
IsRadixText(s) ==
    /\ Len(s) >= 3
    /\ PrefixRadix(s) # 0
    /\ \A i \in 3..Len(s) : RadixDigit(s[i], PrefixRadix(s)) # -1

\* the text is a numeric literal: a radix literal or an optionally signed
\* decimal literal
IsNumericLiteral(s) ==
    \/ IsRadixText(s)
    \/ IsUnsignedDecimalText(IF s # <<>> /\ s[1] \in {"+", "-"} THEN Tail(s) ELSE s)

\* the types of the values that are numbers; NaN is none
NumberTypes == {"num", "dec"}

BooleanTexts == {<<"t", "r", "u", "e">>, <<"f", "a", "l", "s", "e">>}

\* the value the rules give in their order for the text value
ClassifiedInOrder(value, result) ==
    IF value = <<>> THEN result = JNull
    ELSE IF IsNumericLiteral(value) THEN result.t \in NumberTypes
    ELSE IF ToLowerCase(value) \in BooleanTexts
    THEN result = JBool(ToLowerCase(value) = <<"t", "r", "u", "e">>)
    ELSE IF isDateString(value)
    THEN \E legacyDate \in BOOLEAN :
             result = IF DateIsValid(value, legacyDate) THEN JDate(value) ELSE JStr(value)
    ELSE result = JStr(value)

CellParsed == dpInput.t = "str" /\ dpResult # NotParsed

\* C17: parseValue gives each text the value of the first rule it matches in
\* the order empty -> null, numeric literal -> number, true/false in any
\* letter case -> boolean, date pattern with a valid instant -> date, and
\* otherwise the unchanged text; the value is a function of the text of the
\* cell alone.
C17_ClassifiedInOrder == CellParsed => ClassifiedInOrder(dpInput.s, dpResult.value)

\* the record maps each column j to parseValue of the trimmed field j
MapsColumnsToValues(record, columns, values) ==
    /\ record.t = "obj"
    /\ \A j \in 1..Len(columns) :
           \E legacyDate \in BOOLEAN :
               ObjGet(record, columns[j]) = parseValue(Trim(values[j]), legacyDate)

\* lines, the non-blank lines of a CSV text, have the field count of the header
IsRegularCsv(lines) ==
    /\ Len(lines) >= 2
    /\ \A i \in 2..Len(lines) : Len(parseCsvLine(lines[i])) = Len(parseCsvLine(lines[1]))

RegularCsvGivesRecords(lines, result) ==
    IsRegularCsv(lines) =>
        /\ result.success
        /\ result.format = "csv"
        /\ result.columns = TrimAll(parseCsvLine(lines[1]))
        /\ Len(result.data) = Len(lines) - 1
        /\ \A i \in 1..Len(result.data) :
               MapsColumnsToValues(result.data[i], result.columns, parseCsvLine(lines[i + 1]))

OnCsvPath == OnLinePath /\ PathOf(Trim(dpInput.s)) = "csv"

\* C18: a CSV text of at least two non-blank lines whose data lines have the
\* field count of the header gives a success with format csv, the trimmed
\* header fields as columns, one record for each non-blank data line in the
\* order of the text, and in each record parseValue of the trimmed field j
\* under the column j.
C18_RegularCsvGivesRecords ==
    OnCsvPath =>
        RegularCsvGivesRecords(SelectSeq(Split(Trim(dpInput.s), "\n"), NonBlank), dpResult)

\* the error kinds of parseJsonData
JsonErrorKinds ==
    {"jsonSyntax", "jsonNotArray", "jsonEmptyArray", "jsonElementNotObject",
     "jsonRowFormat", "jsonRowMismatch"}

\* the paths that can have returned result: the tag of a success, and for a
\* failure the paths that give its error
ResultPaths(result) ==
    IF result.success THEN {result.format}
    ELSE IF result.error.kind \in JsonErrorKinds THEN {"json"}
    ELSE IF result.error.kind = "csvTooFewLines" THEN {"csv"}
    ELSE IF result.error.kind = "tsvTooFewLines" THEN {"tsv"}
    ELSE {"csv", "tsv"}

PathInOrder(trimmedData, result) ==
    /\ PathOf(trimmedData) \in ResultPaths(result)
    /\ result.success => result.format = PathOf(trimmedData)
    /\ result.success => result.format \in {"json", "csv", "tsv"}
    /\ isCsvFormat(trimmedData) /\ isTsvFormat(trimmedData) /\ ~isJsonFormat(trimmedData)
           => "csv" \in ResultPaths(result) /\ (result.success => result.format = "csv")

NonBlankParsed == TextParsed /\ Trim(dpInput.s) # <<>>

\* C19: the path of parseData on the trimmed text is JSON for a text in
\* brackets or braces, else CSV if the comma heuristic holds, else TSV if
\* the tab heuristic holds, else CSV; a text for which both heuristics hold
\* is parsed as CSV, and the tag of a success is json, csv or tsv.
C19_PathInOrder == NonBlankParsed => PathInOrder(Trim(dpInput.s), dpResult)

\* a text for which both heuristics hold was parsed as CSV
C19_Witness ==
    /\ NonBlankParsed
    /\ isCsvFormat(Trim(dpInput.s))
    /\ isTsvFormat(Trim(dpInput.s))
    /\ dpResult.success
    /\ dpResult.format = "csv"

\* lines, the non-blank lines of a text without commas, begin with a header
\* and a data line of the same nonzero number of tabs
IsTabSeparated(trimmedData, lines) ==
    /\ ~isJsonFormat(trimmedData)
    /\ CountChar(trimmedData, ",") = 0
    /\ Len(lines) >= 2
    /\ CountChar(lines[1], "\t") > 0
    /\ CountChar(lines[1], "\t") = CountChar(lines[2], "\t")

\* the result of the TSV path for a header of the given number of tabs
IsTsvOutcome(result, tabs) ==
    IF result.success
    THEN /\ result.format = "tsv"
         /\ Len(result.columns) = tabs + 1
    ELSE /\ result.error.kind = "columnCount"
         /\ result.error.expected = tabs + 1

TabSeparatedIsTsv(trimmedData, lines, result) ==
    IsTabSeparated(trimmedData, lines) => IsTsvOutcome(result, CountChar(lines[1], "\t"))

\* C20: a text without commas whose first two non-blank lines carry the
\* same nonzero number of tabs is taken as TSV and parsed into records of
\* several columns with format tsv, blank lines between the header and the
\* first data line or not.
C20_TabSeparatedIsTsv ==
    NonBlankParsed =>
        TabSeparatedIsTsv(Trim(dpInput.s),
                          SelectSeq(Split(Trim(dpInput.s), "\n"), NonBlank), dpResult)

\* ---- the extraction step by itself ----

MaxTokens == 5

\* the pieces the response texts are made of
ExtractTokens ==
    {Fence, JsonFence, <<Backtick>>, <<"{">>, <<"}">>, <<"a">>, <<" ">>}

\* the JSON text {"x":[1,2]}
TextXObject == <<"{", "\"", "x", "\"", ":", "[", "1", ",", "2", "]", "}">>

\* response texts with the object {"x":[1,2]}: in prose, by itself, in fences
ExtractTexts ==
    { <<"s", "e", "e", " ">> \o TextXObject \o <<" ", "o", "k">>,
      TextXObject \o <<"\n">>,
      <<"o", "k", ":", "\n">> \o JsonFence \o <<"\n">> \o TextXObject \o <<"\n">> \o Fence,
      Fence \o <<"\n">> \o TextXObject \o <<"\n">> \o Fence \o <<" ", "o", "k">> }

\* the concatenation of the texts of parts
RECURSIVE Concat(_)
Concat(parts) == IF parts = <<>> THEN <<>> ELSE Head(parts) \o Concat(Tail(parts))

\* what the extraction step leaves in jsonContent
Extracted(jsonContent) == [jsonContent |-> jsonContent]

\* the extraction step of the agent functions runs on the response text
\* dpInput: content = response.content.trim(), then the rules
Extract ==
    /\ dpResult = NotParsed
    /\ dpResult' = Extracted(ExtractJsonContent(Trim(dpInput.s)))
    /\ UNCHANGED <<appVars, apiKey, run, dpInput>>

\* the response texts: at most MaxTokens pieces of ExtractTokens in a row,
\* and the texts of ExtractTexts
InitExtract ==
    /\ AppInit
    /\ apiKey = FALSE
    /\ run = IdleRun
    /\ \/ \E parts \in SeqsUpTo(ExtractTokens, MaxTokens) : dpInput = JStr(Concat(parts))
       \/ \E text \in ExtractTexts : dpInput = JStr(text)
    /\ dpResult = NotParsed

NextExtract == Extract

SpecExtract == InitExtract /\ [][NextExtract]_vars

\* the 0-based position of the fence that closes the block opened by the
\* first occurrence of open, -1 when there is no such block
BlockEnd(content, open) ==
    IF IndexOf(content, open) = -1 THEN -1
    ELSE IndexOfFrom(content, Fence, IndexOf(content, open) + Len(open))

\* the interior of the block that the first occurrence of open opens
BlockInterior(content, open) ==
    Trim(Substring(content, IndexOf(content, open) + Len(open), BlockEnd(content, open)))

\* a single backtick in front and one at the end, in a text without fence
IsBacktickWrapped(content) ==
    /\ ~Includes(content, Fence)
    /\ Len(content) >= 2
    /\ content[1] = Backtick
    /\ content[Len(content)] = Backtick

\* the first { stands before the last }
BracesInOrder(content) ==
    /\ IndexOf(content, <<"{">>) # -1
    /\ IndexOf(content, <<"{">>) < LastIndexOf(content, <<"}">>)

\* the last } stands before the first {
BracesReversed(content) ==
    /\ LastIndexOf(content, <<"}">>) # -1
    /\ LastIndexOf(content, <<"}">>) < IndexOf(content, <<"{">>)

\* the candidate text of the first applicable rule for the trimmed text
FirstApplicableRule(content) ==
    IF BlockEnd(content, JsonFence) # -1 THEN BlockInterior(content, JsonFence)
    ELSE IF BlockEnd(content, Fence) # -1 THEN BlockInterior(content, Fence)
    ELSE IF IsBacktickWrapped(content)
    THEN Trim(SubSeq(content, 2, Len(content) - 1))
    ELSE IF BracesInOrder(content)
    THEN SubSeq(content, IndexOf(content, <<"{">>) + 1, LastIndexOf(content, <<"}">>) + 1)
    ELSE content

ExtractDone == dpInput.t = "str" /\ dpResult # NotParsed

ExtractsByFirstRule(content, result) ==
    /\ "jsonContent" \in DOMAIN result
    /\ ~BracesReversed(content) => result.jsonContent = FirstApplicableRule(content)

\* C21: the extraction step gives the candidate text of the first applicable
\* rule in the order json fenced block, other fenced block, single leading
\* and trailing backtick, span from the first { to the last }, trimmed text,
\* and it does not throw (texts whose last } stands before the first { are
\* the case of C22).
C21_ExtractsByFirstRule == ExtractDone => ExtractsByFirstRule(Trim(dpInput.s), dpResult)

\* the trimmed text reaches the brace scan: no fence, no backticks around it
ReachesBraceScan(content) ==
    /\ ~Includes(content, Fence)
    /\ ~(StartsWith(content, <<Backtick>>) /\ EndsWith(content, <<Backtick>>))

SlicesOrderedBracesOnly(content, result) ==
    ReachesBraceScan(content) =>
        result.jsonContent =
            IF BracesInOrder(content)
            THEN SubSeq(content, IndexOf(content, <<"{">>) + 1,
                        LastIndexOf(content, <<"}">>) + 1)
            ELSE content

\* C22: the brace scan slices a span only when the first { and the last }
\* both exist and the { comes first; for an unfenced text whose last }
\* stands before its first {, or that lacks one of the two, the candidate is
\* the trimmed text unchanged.
C22_SlicesOrderedBracesOnly ==
    ExtractDone => SlicesOrderedBracesOnly(Trim(dpInput.s), dpResult)

\* the text the strict parse gets when the repair pass stands between the
\* extraction and the parse
RepairedCandidate(text) == cleanJsonContent(ExtractJsonContent(Trim(text)))

\* the run ends the attempt by returning the success with the value
AcceptsAtOnce(r, value) ==
    /\ r.pc = "returned"
    /\ r.result.success
    /\ r.result.config = value
    /\ r.path = "strict"

RepairedBeforeStrictParse(text, parsed, r) ==
    parsed.ok => AcceptsAtOnce(r, parsed.v)

\* C23: in every attempt the text of the strict parse has been through the
\* repair pass after the extraction: an answer whose repaired candidate is
\* strict JSON is accepted on that attempt by the strict parse, without a
\* retry and without the permissive parse; so is the object whose only
\* defect is a raw control character inside its text.
C23_RepairedBeforeStrictParse ==
    [][\A net \in NetOutcomes(ResponseContents), ev \in EvalOutcomes :
           LoopAnswer(net, ev) /\ net.kind = "ok" /\ net.content.t = "str" =>
               RepairedBeforeStrictParse(net.content.s,
                                         JsonParse(RepairedCandidate(net.content.s)),
                                         run')]_vars

\* ---- cleanJsonContent by itself ----

MaxPieces == 4

\* the member "a":1
TextMemberA == <<"\"", "a", "\"", ":", "1">>

\* the member "b":",]", whose string value holds a comma before a bracket
TextMemberB == <<"\"", "b", "\"", ":", "\"", ",", "]", "\"">>

\* the member "u":"//x", whose string value holds two slashes
TextMemberU == <<"\"", "u", "\"", ":", "\"", "/", "/", "x", "\"">>

\* the pieces the texts given to cleanJsonContent are made of
CleanPieces ==
    { <<"{">>, <<"}">>, <<"[">>, <<"]">>, <<",">>, <<" ">>, <<"1">>,
      TextMemberA, TextMemberB, TextMemberU }

\* longer texts: white space and a line feed after the trailing comma,
\* nested brackets, comments
CleanTexts ==
    { <<"{">> \o TextMemberA \o <<",", " ", "}">>,
      <<"{">> \o TextMemberA \o <<",", "\n", "}">>,
      <<"[", "1", ",", "1", ",", " ", "]">>,
      <<"{", "\"", "a", "\"", ":", "[", "1", ",", "]", ",", "}">>,
      <<"{">> \o TextMemberA \o <<",", " ", "/", "/", "c", "\n", "}">>,
      <<"{", "/", "*", "c", "*", "/">> \o TextMemberA \o <<",", "}">> }

\* what a call of cleanJsonContent returns
Cleaned(text) == [cleaned |-> text]

\* ApiClient.cleanJsonContent(dpInput) is called and returns
Clean ==
    /\ dpResult = NotParsed
    /\ dpResult' = Cleaned(cleanJsonContent(dpInput.s))
    /\ UNCHANGED <<appVars, apiKey, run, dpInput>>

\* the texts cleanJsonContent is called with: at most MaxPieces pieces of
\* CleanPieces in a row, and the texts of CleanTexts
InitClean ==
    /\ AppInit
    /\ apiKey = FALSE
    /\ run = IdleRun
    /\ \/ \E parts \in SeqsUpTo(CleanPieces, MaxPieces) : dpInput = JStr(Concat(parts))
       \/ \E text \in CleanTexts : dpInput = JStr(text)
    /\ dpResult = NotParsed

NextClean == Clean

SpecClean == InitClean /\ [][NextClean]_vars

\* the text s from the position i on without the commas that stand outside
\* a string and, after optional white space, before a closing } or ]
RECURSIVE WithoutTrailingCommas(_, _, _)
WithoutTrailingCommas(s, i, inString) ==
    IF i >= Len(s) THEN <<>>
    ELSE IF s[i + 1] = "\""
    THEN <<"\"">> \o WithoutTrailingCommas(s, i + 1, ~inString)
    ELSE IF ~inString /\ s[i + 1] = "," /\ SkipWs(s, i + 1) < Len(s)
            /\ s[SkipWs(s, i + 1) + 1] \in {"}", "]"}
    THEN WithoutTrailingCommas(s, i + 1, inString)
    ELSE <<s[i + 1]>> \o WithoutTrailingCommas(s, i + 1, inString)

\* the text has a trailing comma outside a string
HasTrailingComma(s) == WithoutTrailingCommas(s, 0, FALSE) # s

CleanDone == dpInput.t = "str" /\ dpResult # NotParsed

ParsesAs(denoted, cleaned) == denoted.ok => JsonParse(cleaned) = denoted

\* C24: for a text that is valid JSON but for trailing commas (one before a
\* closing } or ], white space between them or not), the text that
\* cleanJsonContent returns strict-parses to the value the text denotes
\* without those commas.
C24_TrailingCommasRepaired ==
    CleanDone /\ HasTrailingComma(dpInput.s) =>
        ParsesAs(JsonParse(WithoutTrailingCommas(dpInput.s, 0, FALSE)), dpResult.cleaned)

\* the number parseValue returns is the value of the whole text
IsValueOfText(value, result) == IsNumericLiteral(value) => result = ToNumber(value)

\* C25: for every text that parseValue takes as numeric, the number it
\* returns is the numeric value of the whole text, the value Number() gives
\* in the acceptance test; so for 1e3, 2.5e1, 1.0 and 0x10.
C25_NumberIsValueOfText == CellParsed => IsValueOfText(dpInput.s, dpResult.value)

\* C26: after a call of generateChartFromConfig that returned true (the
\* current ECharts instance holds the option of that call and no clearChart
\* came since), the chart container shows the chart of that instance and not
\* the placeholder; so after generate -> clearData -> generate.
C26_RenderedChartIsShown ==
    cgOption # JNull => cgChart /\ chartContainer = "chart"

\* the state clearData leaves
IsCleared ==
    /\ chartConfig = JNull
    /\ selectedChartType = JNull
    /\ chatHistory = <<>>
    /\ cgOption = JNull
    /\ ~exportEnabled

\* C27: after clearData the application stays cleared until the user starts
\* a new request.  A request needs a text in #dataInput, which clearData
\* empties: while #dataInput is empty no request was started since, so no
\* configuration is set, no chart is rendered, the export buttons are off
\* and the history is empty, whatever loop was outstanding.
C27_StaysCleared == dataInput = "" => IsCleared

(***************************************************************************)
(* The application when every model call returns: while a config loop      *)
(* waits for an answer or a backoff timer, or a turn waits for the         *)
(* suggestion agent, one of them arrives; what the user does stays         *)
(* unconstrained.  The answers are a failed request, an object and prose.  *)
(***************************************************************************)
MaxLiveTurns == 2

LiveNetOutcomes ==
    {[kind |-> "throw", content |-> JNull]}
        \cup {[kind |-> "ok", content |-> JStr(x)] : x \in {TextObjA, TextProse}}

\* the model call of the config loop of task i is answered
LiveResponse(i) == \E net \in LiveNetOutcomes : ConfigAnswer(i, net)

\* an awaited model call or backoff timer of some turn returns
ModelCallReturns ==
    \E i \in TaskIds : LiveResponse(i) \/ ConfigTimer(i) \/ SuggestResponse(i)

\* the bound of the model lets one more turn start
MayStartLiveTurn == turns < MaxLiveTurns

NextLive ==
    \/ MayStartLiveTurn /\ ClickSend
    \/ MayStartLiveTurn /\ PressEnter
    \/ MayStartLiveTurn /\ ClickSuggestion
    \/ MayStartLiveTurn /\ AnalyzeData
    \/ \E i \in TaskIds : LiveResponse(i)
    \/ \E i \in TaskIds : ConfigTimer(i)
    \/ \E i \in TaskIds : SuggestResponse(i)
    \/ ClearData
    \/ ClearChatHistory
    \/ TypeData

SpecLive == Init /\ [][NextLive]_vars /\ WF_vars(ModelCallReturns)

\* the calls of sendChatMessage that wait for processAIRequest
ChatTurns == {i \in 1..Len(tasks) : tasks[i].kind = "chat"}

ChatTurnOutstanding == ChatTurns # {}

\* the send button is enabled and the loading overlay is hidden
ControlsRestored == ~sendBtnDisabled /\ ~loadingShown

\* a step in which a call of sendChatMessage returns: one that waited for
\* processAIRequest, or one that started in this step and did not wait
ChatTurnReturns ==
    \/ Cardinality(ChatTurns') < Cardinality(ChatTurns)
    \/ /\ ClickSend \/ PressEnter \/ ClickSuggestion
       /\ Len(tasks') = Len(tasks)

\* C28: when every model call returns, every call of sendChatMessage that
\* disabled the send button and showed the loading overlay returns, and the
\* step in which it returns leaves the button enabled and the overlay
\* hidden, whether the recovery succeeded, failed, or applying its result
\* threw.
C28_ControlsRestored ==
    /\ ChatTurnOutstanding ~> (~ChatTurnOutstanding /\ ControlsRestored)
    /\ [][ChatTurnReturns => ControlsRestored']_vars

\* a chat turn has returned through the catch block, no turn is outstanding,
\* the button is enabled and the overlay hidden
C28_Witness ==
    /\ tasks = <<>>
    /\ chatHistory # <<>>
    /\ Last(chatHistory).content[1] = "sorryException"
    /\ ControlsRestored

\* the AI chat section is enabled and app.chatHistory is not empty
ChatCanBeCleared == aiEnabled /\ Len(chatHistory) > 0

\* C29: in every state between two operations, the clear-chat button is
\* enabled exactly when the AI chat section is enabled and app.chatHistory
\* is not empty; so after clearData and clearChatHistory, and after a
\* message was added.
C29_ClearChatButtonFollowsHistory == ~clearChatBtnDisabled <=> ChatCanBeCleared

\* the configuration the chart displays: the option of the last call of
\* setOption that returned, null after clearChart
LastRendered == cgOption

\* C30: whenever app.chartConfig is not null, it is the configuration the
\* chart last rendered successfully, and so is ChartGenerator.currentConfig:
\* a recovered configuration whose rendering fails replaces neither, and the
\* next prompt carries the configuration that is displayed.
C30_ConfigIsRendered ==
    chartConfig # JNull =>
        chartConfig = LastRendered /\ cgCurrentConfig = LastRendered

====
